---- MODULE Spec2Model ----
(***************************************************************************)
(* Metadata cache and synchronisation engine of the YouTube tab duration   *)
(* extension: URL normalisation (utils/storage.ts), the cache write path   *)
(* (updateMetadataCache, clearCache) and the background slow-path sync     *)
(* (entrypoints/background.ts, handleStealthSync).                         *)
(*                                                                         *)
(* Strings are sequences of tokens.  A token is either an origin (scheme   *)
(* plus host, always the first token of a parseable URL) or one of the     *)
(* characters / words of TailAlphabet.  URL parsing, query parsing and the *)
(* template that composes the canonical URL work on these sequences, so    *)
(* that normalising a string twice really parses the composed string.      *)
(***************************************************************************)
EXTENDS Integers, Sequences, FiniteSets, TLC

VARIABLES
    nin,      \* normalizeYoutubeUrl: the argument of the last call
    nout,     \* normalizeYoutubeUrl: the value it returned
    nout2,    \* normalizeYoutubeUrl applied to nout, once that was done
    storage,  \* browser.storage.local "metadataCache": insertion-ordered entries
    now,      \* the last value Date.now() returned
    calls,    \* running updateMetadataCache invocations
    nwrites,  \* number of updateMetadataCache invocations so far
    batches,  \* the background's handleStealthSync runs, one per sync-all message
    probe,    \* one video's task of probeTabs (manager) or getYouTubeTabs (popup)
    local,    \* browser.storage.local: whether it exists, the preferences it holds,
              \* and what the last call of storage.ts on it returned
    ui,       \* the module-level variables of the open page (popup or manager)
    content   \* the content script of one YouTube tab: its timers and last read

normVars  == <<nin, nout, nout2>>
cacheVars == <<storage, now, calls, nwrites>>
syncVars  == <<batches>>
probeVars == <<probe>>
localVars == <<local>>
uiVars    == <<ui>>
contentVars == <<content>>
vars      == <<nin, nout, nout2, storage, now, calls, nwrites, batches, probe, local, ui, content>>

----------------------------------------------------------------------------
(* Bounds *)

\* longest free-form tail (tokens after the optional origin) fed to normalize
MaxTail == 4

\* the cache bound (the source keeps 200 entries), scaled down
CacheLimit == 2

\* last value of the clock
MaxTime == 2

\* number of updateMetadataCache invocations in one behaviour
MaxWrites == 3

\* most tabs in one sync-all message
MaxBatch == 2

----------------------------------------------------------------------------
(* Strings *)

Origins ==
    { "https://www.youtube.com", "https://m.youtube.com", "https://youtu.be",
      "https://notyoutube.com", "https://example.com" }

TailAlphabet == { "/", "?", "&", "=", "#", "shorts", "v", "a" }

\* hostname.includes(needle) for a hostname that starts with the origin's host:
\* the tokens of TailAlphabet that may follow contain no "." and cannot
\* complete either needle, so the origin decides.
OriginHostIncludes(origin, needle) ==
    CASE needle = "youtube.com" ->
            origin \in { "https://www.youtube.com", "https://m.youtube.com",
                         "https://notyoutube.com" }
      [] needle = "youtu.be" -> origin = "https://youtu.be"
      [] OTHER -> FALSE

\* first index of s holding a token of set, Len(s) + 1 when there is none
IndexOfAny(s, set) ==
    IF \E i \in 1..Len(s) : s[i] \in set
    THEN CHOOSE i \in 1..Len(s) :
            /\ s[i] \in set
            /\ \A j \in 1..(i - 1) : s[j] \notin set
    ELSE Len(s) + 1

\* String.prototype.split(sep): the pieces between the separators
RECURSIVE SplitOn(_, _)
SplitOn(s, sep) ==
    LET i == IndexOfAny(s, {sep})
    IN  IF i > Len(s) THEN << s >>
        ELSE << SubSeq(s, 1, i - 1) >> \o SplitOn(SubSeq(s, i + 1, Len(s)), sep)

StartsWith(s, prefix) ==
    /\ Len(s) >= Len(prefix)
    /\ SubSeq(s, 1, Len(prefix)) = prefix

----------------------------------------------------------------------------
(* new URL(url) *)

\* The parsed URL: ok = FALSE stands for the TypeError of the constructor.
\* hostname is the origin followed by the tokens up to the first / ? #.
\* pathname runs to the first ? or # and is "/" when empty; search is what
\* follows "?" up to "#".
ParseURL(url) ==
    IF url = << >> \/ url[1] \notin Origins
    THEN [ ok |-> FALSE, hostname |-> << >>, pathname |-> << >>, search |-> << >> ]
    ELSE
        LET rest      == Tail(url)
            hEnd      == IndexOfAny(rest, {"/", "?", "#"})
            afterHost == SubSeq(rest, hEnd, Len(rest))
            pEnd      == IndexOfAny(afterHost, {"?", "#"})
            rawPath   == SubSeq(afterHost, 1, pEnd - 1)
            afterPath == SubSeq(afterHost, pEnd, Len(afterHost))
            query     == IF afterPath # << >> /\ afterPath[1] = "?"
                         THEN LET q == Tail(afterPath)
                              IN  SubSeq(q, 1, IndexOfAny(q, {"#"}) - 1)
                         ELSE << >>
        IN  [ ok       |-> TRUE,
              hostname |-> << url[1] >> \o SubSeq(rest, 1, hEnd - 1),
              pathname |-> IF rawPath = << >> THEN << "/" >> ELSE rawPath,
              search   |-> query ]

HostnameIncludes(hostname, needle) == OriginHostIncludes(hostname[1], needle)

\* the value no string equals: what searchParams.get returns for a missing name
NULL == << "\\null" >>

\* URLSearchParams.get(name): the pairs are the non-empty pieces between "&",
\* each split at its first "="; the value of the first pair named `name`.
SearchParamsGet(search, name) ==
    LET pieces == SplitOn(search, "&")
        IsPair(i) ==
            /\ pieces[i] # << >>
            /\ SubSeq(pieces[i], 1, IndexOfAny(pieces[i], {"="}) - 1) = name
        hits == { i \in 1..Len(pieces) : IsPair(i) }
    IN  IF hits = {} THEN NULL
        ELSE LET i == CHOOSE k \in hits : \A j \in hits : k <= j
                 eq == IndexOfAny(pieces[i], {"="})
             IN  SubSeq(pieces[i], eq + 1, Len(pieces[i]))

\* JavaScript truthiness of a string-or-null
Truthy(v) == v # NULL /\ v # << >>

----------------------------------------------------------------------------
(* normalizeYoutubeUrl *)

\* `https://www.youtube.com/watch?v=${videoId}` composed on the short-link host
WatchUrl_ShortHost(videoId) ==
    << "https://youtu.be", "/", "watch", "?", "v", "=" >> \o videoId

\* `https://www.youtube.com/watch?v=${videoId}`
WatchUrl(videoId) ==
    << "https://www.youtube.com", "/", "watch", "?", "v", "=" >> \o videoId

\* youtu.be short links: the video id is the path without its leading "/"
ShortLinkBranch(url, urlObj) ==
    LET videoId == Tail(urlObj.pathname)
    IN  IF videoId # << >> THEN WatchUrl(videoId) ELSE url

\* the shorts branch taking split("/")[1] for the id
ShortsBranch_WrongSegment(url, urlObj) ==
    IF StartsWith(urlObj.pathname, << "/", "shorts", "/" >>)
    THEN LET shortId == SplitOn(urlObj.pathname, "/")[2]
         IN  IF shortId # << >> THEN WatchUrl(shortId) ELSE url
    ELSE url

\* /shorts/{id}: split("/")[2] is the third piece; anything else falls through
ShortsBranch(url, urlObj) ==
    IF StartsWith(urlObj.pathname, << "/", "shorts", "/" >>)
    THEN LET shortId == SplitOn(urlObj.pathname, "/")[3]
         IN  IF shortId # << >> THEN WatchUrl(shortId) ELSE url
    ELSE url

\* what a caller would see if the TypeError of new URL escaped
THROWN == << "\\TypeError" >>

\* normalizeYoutubeUrl without its try / catch
normalizeYoutubeUrl_NoCatch(url) ==
    LET urlObj == ParseURL(url)
    IN  IF ~urlObj.ok THEN THROWN
        ELSE IF /\ ~HostnameIncludes(urlObj.hostname, "youtube.com")
                /\ ~HostnameIncludes(urlObj.hostname, "youtu.be")
        THEN url
        ELSE IF HostnameIncludes(urlObj.hostname, "youtu.be")
        THEN ShortLinkBranch(url, urlObj)
        ELSE LET videoId == SearchParamsGet(urlObj.search, << "v" >>)
             IN  IF Truthy(videoId) THEN WatchUrl(videoId)
                 ELSE ShortsBranch(url, urlObj)

normalizeYoutubeUrl(url) ==
    LET urlObj == ParseURL(url)
    IN  IF ~urlObj.ok THEN url
        ELSE IF /\ ~HostnameIncludes(urlObj.hostname, "youtube.com")
                /\ ~HostnameIncludes(urlObj.hostname, "youtu.be")
        THEN url
        ELSE IF HostnameIncludes(urlObj.hostname, "youtu.be")
        THEN ShortLinkBranch(url, urlObj)
        ELSE LET videoId == SearchParamsGet(urlObj.search, << "v" >>)
             IN  IF Truthy(videoId) THEN WatchUrl(videoId)
                 ELSE ShortsBranch(url, urlObj)

----------------------------------------------------------------------------
(* Inputs of normalizeYoutubeUrl *)

RECURSIVE SeqsUpTo(_, _)
SeqsUpTo(S, n) ==
    IF n = 0 THEN { << >> }
    ELSE LET shorter == SeqsUpTo(S, n - 1)
         IN  shorter \cup { Append(s, x) : s \in { t \in shorter : Len(t) = n - 1 }, x \in S }

\* any string: an optional origin followed by at most MaxTail tokens
FreeUrls ==
    LET tails == SeqsUpTo(TailAlphabet, MaxTail)
    IN  tails \cup { << o >> \o t : o \in Origins, t \in tails }

\* video ids: words without any URL delimiter
VideoIds == { << "a" >>, << "b" >>, << "a", "b" >>, << "v" >>, << "shorts" >> }

PlatformOrigins == { "https://www.youtube.com", "https://m.youtube.com" }

\* extra query parameters, none of them named v
ExtraBefore == { << >>, << "a", "=", "b", "&" >>, << "&" >>, << "a", "&" >> }
ExtraAfter  == { << >>, << "&", "a", "=", "b" >>, << "&" >>, << "&", "a", "=", "v", "=", "b" >> }
Fragments   == { << >>, << "#", "a" >>, << "#", "v", "=", "b" >> }

\* watch?v=ID with arbitrary extra query parameters
WatchForms(id) ==
    { << o, "/", "watch", "?" >> \o pre \o << "v", "=" >> \o id \o post \o frag :
        o \in PlatformOrigins, pre \in ExtraBefore, post \in ExtraAfter, frag \in Fragments }

\* youtu.be/ID
ShortLinkForms(id) ==
    { << "https://youtu.be", "/" >> \o id \o q \o frag :
        q \in { << >>, << "?", "a", "=", "b" >>, << "?", "v", "=", "b" >> },
        frag \in Fragments }

\* /shorts/ID
ShortsForms(id) ==
    { << o, "/", "shorts", "/" >> \o id \o rest \o frag :
        o \in PlatformOrigins,
        rest \in { << >>, << "/" >>, << "?", "a", "=", "b" >> },
        frag \in Fragments }

AcceptedForms(id) == WatchForms(id) \cup ShortLinkForms(id) \cup ShortsForms(id)

FormUrls == UNION { AcceptedForms(id) : id \in VideoIds }

----------------------------------------------------------------------------
(* normalizeYoutubeUrl as an operation *)

\* the strings normalizeYoutubeUrl is applied to
UrlInputs == FreeUrls \cup FormUrls

\* storage.local holding none of the preference keys; a present key is << value >>
NoPrefs ==
    [ sortByDuration |-> << >>, excludedUrls |-> << >>, thumbnailQuality |-> << >>,
      layoutMode |-> << >>, groupingMode |-> << >>, sortOption |-> << >>,
      savedSessions |-> << >> ]

\* browser.storage.local (present or not) before any call of storage.ts
StorageApi(available) == [ available |-> available, prefs |-> NoPrefs, ret |-> [ op |-> "none" ], ncalls |-> 0 ]

\* no content script is running
NoContentScript == [ running |-> FALSE ]

\* no popup and no manager page is open
ClosedPage == [ who |-> "none" ]

\* the state after start-up: nothing cached, nothing running
Init ==
    /\ nin = NULL
    /\ nout = NULL
    /\ nout2 = NULL
    /\ storage = << >>
    /\ now = 0
    /\ calls = [ c \in { "c1", "c2" } |-> [ pc |-> "idle" ] ]
    /\ nwrites = 0
    /\ batches = [ b \in { "b1", "b2" } |-> [ pc |-> "idle" ] ]
    /\ local = StorageApi(TRUE)
    /\ ui = ClosedPage
    /\ content = NoContentScript
    /\ probe = [ pc |-> "idle" ]

\* the same, with an argument chosen for normalizeYoutubeUrl
InitNorm ==
    /\ nin \in UrlInputs
    /\ nout = NULL
    /\ nout2 = NULL
    /\ storage = << >>
    /\ now = 0
    /\ calls = [ c \in { "c1", "c2" } |-> [ pc |-> "idle" ] ]
    /\ nwrites = 0
    /\ batches = [ b \in { "b1", "b2" } |-> [ pc |-> "idle" ] ]
    /\ local = StorageApi(TRUE)
    /\ ui = ClosedPage
    /\ content = NoContentScript
    /\ probe = [ pc |-> "idle" ]

\* normalizeYoutubeUrl(nin)
Normalize ==
    /\ nout = NULL
    /\ nout' = normalizeYoutubeUrl(nin)
    /\ UNCHANGED << contentVars, uiVars, localVars, nin, nout2, cacheVars, syncVars, probeVars >>

\* normalizeYoutubeUrl applied to the value it returned
Renormalize ==
    /\ nout # NULL
    /\ nout2 = NULL
    /\ nout2' = normalizeYoutubeUrl(nout)
    /\ UNCHANGED << contentVars, uiVars, localVars, nin, nout, cacheVars, syncVars, probeVars >>

----------------------------------------------------------------------------
(* The metadata cache: updateMetadataCache and clearCache *)

\* the two invocations of updateMetadataCache that may be in progress at once
Callers == { "c1", "c2" }

\* Omit<CachedMetadata, "timestamp"> values handed to updateMetadataCache
MetadataInputs ==
    { [ seconds |-> 600, title |-> "A", channelName |-> "Ch",    currentTime |-> 90, isLive |-> FALSE ],
      [ seconds |-> 0,   title |-> "A", channelName |-> "Ch",    currentTime |-> 0,  isLive |-> FALSE ],
      [ seconds |-> 0,   title |-> "B", channelName |-> "Other", currentTime |-> 5,  isLive |-> TRUE  ] }

\* URLs handed to updateMetadataCache
CacheUrls ==
    { << "https://youtu.be", "/", "a" >>,
      << "https://www.youtube.com", "/", "watch", "?", "v", "=", "b", "&", "a", "=", "b" >>,
      << "https://m.youtube.com", "/", "shorts", "/", "a", "b" >>,
      << "https://example.com", "/", "a" >> }

IdleCall == [ pc |-> "idle" ]

\* Object.keys(cache), in insertion order
Keys(cache) == [ i \in DOMAIN cache |-> cache[i].key ]

HasKey(cache, key) == \E i \in DOMAIN cache : cache[i].key = key

\* cache[key]
Lookup(cache, key) == cache[CHOOSE i \in DOMAIN cache : cache[i].key = key]

CacheEntry(key, metadata, timestamp) ==
    [ key         |-> key,
      seconds     |-> metadata.seconds,
      title       |-> metadata.title,
      channelName |-> metadata.channelName,
      currentTime |-> metadata.currentTime,
      isLive      |-> metadata.isLive,
      timestamp   |-> timestamp ]

\* the assignment with `seconds: metadata.seconds || existing.seconds`
PutEntry_KeepOld(cache, key, metadata, timestamp) ==
    IF HasKey(cache, key)
    THEN [ i \in DOMAIN cache |->
            IF cache[i].key = key
            THEN [ CacheEntry(key, metadata, timestamp) EXCEPT
                     !.seconds = IF metadata.seconds > 0 THEN metadata.seconds
                                 ELSE cache[i].seconds ]
            ELSE cache[i] ]
    ELSE Append(cache, CacheEntry(key, metadata, timestamp))

\* the assignment with the spread in the wrong order,
\* { timestamp: Date.now(), ...existing, ...metadata }
PutEntry_StaleTimestamp(cache, key, metadata, timestamp) ==
    IF HasKey(cache, key)
    THEN [ i \in DOMAIN cache |->
            IF cache[i].key = key
            THEN CacheEntry(key, metadata, cache[i].timestamp)
            ELSE cache[i] ]
    ELSE Append(cache, CacheEntry(key, metadata, timestamp))

\* cache[normalizedUrl] = { ...metadata, timestamp: Date.now() }: an existing
\* key keeps its place in the key order, a new key goes last
PutEntry(cache, key, metadata, timestamp) ==
    IF HasKey(cache, key)
    THEN [ i \in DOMAIN cache |->
            IF cache[i].key = key THEN CacheEntry(key, metadata, timestamp) ELSE cache[i] ]
    ELSE Append(cache, CacheEntry(key, metadata, timestamp))

\* keys.sort((a, b) => cache[a].timestamp - cache[b].timestamp)[0]: the sort is
\* stable, so among equal timestamps the key first in key order comes first
OldestIndex(cache) ==
    CHOOSE i \in DOMAIN cache :
        \A j \in DOMAIN cache :
            \/ cache[i].timestamp < cache[j].timestamp
            \/ (cache[i].timestamp = cache[j].timestamp /\ i <= j)

RemoveAt(cache, i) == SubSeq(cache, 1, i - 1) \o SubSeq(cache, i + 1, Len(cache))

\* the key deleted by the size check, NULL when nothing is deleted
EvictedKey(cache) ==
    IF Len(cache) > CacheLimit THEN cache[OldestIndex(cache)].key ELSE NULL

\* the size check deleting the newest entry
EvictIfOversized_Newest(cache) ==
    IF Len(cache) > CacheLimit
    THEN RemoveAt(cache, CHOOSE i \in DOMAIN cache :
                            \A j \in DOMAIN cache :
                                \/ cache[i].timestamp > cache[j].timestamp
                                \/ (cache[i].timestamp = cache[j].timestamp /\ i >= j))
    ELSE cache

\* the size check with its threshold off by one
EvictIfOversized_OffByOne(cache) ==
    IF Len(cache) > CacheLimit + 1 THEN RemoveAt(cache, OldestIndex(cache)) ELSE cache

\* if (keys.length > 200) delete cache[sortedKeys[0]]
EvictIfOversized(cache) ==
    IF Len(cache) > CacheLimit THEN RemoveAt(cache, OldestIndex(cache)) ELSE cache

\* updateMetadataCache(url, metadata) is called: the URL is normalized and
\* storage.local.get is issued
UpdateBegin(c, metadatas) ==
    /\ calls[c].pc = "idle"
    /\ nwrites < MaxWrites
    /\ nwrites' = nwrites + 1
    /\ \E url \in CacheUrls, metadata \in metadatas :
        calls' = [ calls EXCEPT ![c] =
                    [ pc |-> "get", key |-> normalizeYoutubeUrl(url), metadata |-> metadata ] ]
    /\ UNCHANGED << contentVars, uiVars, localVars, normVars, syncVars, probeVars, storage, now >>

\* the values Date.now() may return next: the clock never runs backwards
ClockReadings == { t \in { now, now + 1 } : t <= MaxTime }

\* storage.local.get resolves: the entry is assigned with the current time,
\* the size check runs and storage.local.set is issued with the result
UpdateGet(c) ==
    /\ calls[c].pc = "get"
    /\ local.available
    /\ \E t \in ClockReadings :
        LET cache == PutEntry(storage, calls[c].key, calls[c].metadata, t)
        IN  /\ now' = t
            /\ calls' = [ calls EXCEPT ![c] =
                            [ pc       |-> "set",
                              key      |-> calls[c].key,
                              metadata |-> calls[c].metadata,
                              ts       |-> t,
                              removed  |-> EvictedKey(cache),
                              cache    |-> EvictIfOversized(cache) ] ]
    /\ UNCHANGED << contentVars, uiVars, localVars, normVars, syncVars, probeVars, storage, nwrites >>

\* storage.local.set takes effect: the whole mapping is replaced
UpdateSet(c) ==
    /\ calls[c].pc = "set"
    /\ storage' = calls[c].cache
    /\ calls' = [ calls EXCEPT ![c] = IdleCall ]
    /\ UNCHANGED << contentVars, uiVars, localVars, normVars, syncVars, probeVars, now, nwrites >>

\* clearCache() that wrote the entries back
clearCache_KeepsEntries(api, cache) == cache

\* the metadata cache in storage.local after clearCache()
clearCache(api, cache) == IF api.available THEN << >> ELSE cache

\* clearCache(): returns at once without storage.local, otherwise
\* storage.local.set({ metadataCache: {} })
ClearCache ==
    /\ storage' = clearCache(local, storage)
    /\ UNCHANGED << contentVars, uiVars, localVars, normVars, syncVars, probeVars, now, calls, nwrites >>

\* metadata with a duration or a live flag: what the manager's probes push
\* (they call requestMetadataUpdate only when seconds > 0 or isLive)
MeaningfulMetadata == { m \in MetadataInputs : m.seconds > 0 \/ m.isLive }

\* the cache written by the probes of a refresh, which run concurrently
NextCache ==
    \/ \E c \in Callers : UpdateBegin(c, MeaningfulMetadata)
    \/ \E c \in Callers : UpdateGet(c)
    \/ \E c \in Callers : UpdateSet(c)
    \/ ClearCache

\* the cache written by one caller at a time, with any metadata: the popup's
\* tab-synced listener pushes whatever the background sends
NextMerge ==
    \/ UpdateBegin("c1", MetadataInputs)
    \/ UpdateGet("c1")
    \/ UpdateSet("c1")
    \/ ClearCache

SpecCache == Init /\ [][NextCache]_vars

SpecMerge == Init /\ [][NextMerge]_vars

----------------------------------------------------------------------------
(* The background's slow path: the sync-all listener and handleStealthSync *)

BatchIds == { "b1", "b2" }

\* the tabs a sync-all message may name, with their URLs
TabIds == { 1, 2, 3 }

TabUrl(id) ==
    CASE id = 1 -> << "https://youtu.be", "/", "a" >>
      [] id = 2 -> << "https://www.youtube.com", "/", "watch", "?", "v", "=", "a", "&", "a", "=", "b" >>
      [] id = 3 -> << "https://www.youtube.com", "/", "watch", "?", "v", "=", "b" >>

\* message.tabs: at most MaxBatch tabs, no tab twice
SyncRequests ==
    { t \in SeqsUpTo(TabIds, MaxBatch) :
        /\ t # << >>
        /\ \A i, j \in DOMAIN t : i # j => t[i] # t[j] }

\* The page text a fetch returns, by what the extraction reads from it:
\*   consent    the text contains "consent.youtube.com"
\*   player     the ytInitialPlayerResponse assignment: "none" (no match),
\*              "malformed" (JSON.parse throws), "noDetails" (no videoDetails)
\*              or "details"
\*   title, author, isLiveFlag, lengthSeconds      fields of videoDetails
\*   liveBroadcast   microformat liveBroadcastDetails: "none", "running" (no
\*                   endTimestamp) or "ended"
\*   approxDurationMs   first "approxDurationMs" of the text, 0 when absent
\*   titleTag    the <title> text without " - YouTube", "" when absent
\*   authorText  first "author" / "ownerChannelName" of the text, "" when absent
Page(consent, player, title, author, isLiveFlag, lengthSeconds, liveBroadcast, approxDurationMs, titleTag, authorText) ==
    [ consent |-> consent, player |-> player, title |-> title, author |-> author,
      isLiveFlag |-> isLiveFlag, lengthSeconds |-> lengthSeconds,
      liveBroadcast |-> liveBroadcast, approxDurationMs |-> approxDurationMs,
      titleTag |-> titleTag, authorText |-> authorText ]

Pages ==
    { Page(TRUE,  "none",      "",  "",   FALSE, 0,   "none",    0,      "Before you continue", ""),
      Page(FALSE, "details",   "A", "Ch", FALSE, 600, "none",    600000, "A", "Ch"),
      Page(FALSE, "details",   "B", "Ch", TRUE,  0,   "running", 0,      "B", "Ch"),
      Page(FALSE, "details",   "B", "Ch", FALSE, 300, "running", 300000, "B", "Ch"),
      Page(FALSE, "details",   "B", "Ch", TRUE,  0,   "running", 300000, "B", "Ch"),
      Page(FALSE, "malformed", "",  "",   FALSE, 0,   "none",    212000, "A", ""),
      Page(FALSE, "none",      "",  "",   FALSE, 0,   "none",    0,      "Sorry...", ""),
      Page(FALSE, "none",      "",  "",   FALSE, 0,   "none",    0,      "",  "") }

\* the text of a task whose fetch has not returned
NoPage == Page(FALSE, "none", "", "", FALSE, 0, "none", 0, "", "")

\* duration, title, channel and isLive after the JSON block
FromPlayerResponse(html) ==
    IF html.player = "details"
    THEN LET live == html.isLiveFlag \/ html.liveBroadcast = "running"
         IN  [ duration |-> html.lengthSeconds,
               title    |-> html.title,
               channel  |-> html.author,
               isLive   |-> IF html.lengthSeconds > 0 THEN FALSE ELSE live ]
    ELSE [ duration |-> 0, title |-> "", channel |-> "", isLive |-> FALSE ]

\* the same after the fallbacks for a zero duration, an empty title and an
\* empty channel
Extracted(html) ==
    LET r == FromPlayerResponse(html)
    IN  [ duration |-> IF r.duration = 0 THEN html.approxDurationMs \div 1000 ELSE r.duration,
          title    |-> IF r.title = "" THEN html.titleTag ELSE r.title,
          channel  |-> IF r.channel = "" THEN html.authorText ELSE r.channel,
          isLive   |-> r.isLive ]

\* the tab-synced message of a tab
TabSynced(tabId, x) ==
    [ action   |-> "tab-synced",
      tabId    |-> tabId,
      metadata |-> [ seconds     |-> x.duration,
                     title       |-> IF x.title = "" THEN "Loaded Video" ELSE x.title,
                     channelName |-> IF x.channel = "" THEN "Unknown Channel" ELSE x.channel,
                     isLive      |-> x.isLive ] ]

\* the same without the early return on a consent page
TaskMessages_NoConsentCheck(tabId, html) ==
    LET x == Extracted(html)
    IN  IF x.duration > 0 \/ x.title # "" \/ x.isLive
        THEN << TabSynced(tabId, x) >>
        ELSE << >>

\* the messages one tab's task sends once its fetch has returned the page
TaskMessages(tabId, html) ==
    IF html.consent THEN << >>
    ELSE LET x == Extracted(html)
         IN  IF x.duration > 0 \/ x.title # "" \/ x.isLive
             THEN << TabSynced(tabId, x) >>
             ELSE << >>

IdleBatch == [ pc |-> "idle" ]

\* a sync-all message arrives: handleStealthSync(message.tabs) runs every
\* tab's task up to its fetch(tab.url)
SyncAll(b) ==
    /\ batches[b].pc = "idle"
    /\ \E tabs \in SyncRequests :
        batches' = [ batches EXCEPT ![b] =
                      [ pc    |-> "running",
                        tabs  |-> tabs,
                        task  |-> [ i \in DOMAIN tabs |-> "fetching" ],
                        html  |-> [ i \in DOMAIN tabs |-> NoPage ],
                        sent  |-> << >> ] ]
    /\ UNCHANGED << contentVars, uiVars, localVars, normVars, cacheVars, probeVars >>

\* the fetch of one tab returns a page and the rest of its task runs
FetchReturn(b, i) ==
    /\ batches[b].pc = "running"
    /\ i \in DOMAIN batches[b].tabs
    /\ batches[b].task[i] = "fetching"
    /\ \E html \in Pages :
        batches' = [ batches EXCEPT
                      ![b].task[i] = "done",
                      ![b].html[i] = html,
                      ![b].sent = @ \o TaskMessages(batches[b].tabs[i], html) ]
    /\ UNCHANGED << contentVars, uiVars, localVars, normVars, cacheVars, probeVars >>

\* the same without the task's try/catch: Promise.all rejects and
\* handleStealthSync ends before its last statement
FetchReject_Uncaught(b, i) ==
    /\ batches[b].pc = "running"
    /\ i \in DOMAIN batches[b].tabs
    /\ batches[b].task[i] = "fetching"
    /\ batches' = [ batches EXCEPT ![b].task[i] = "failed", ![b].pc = "aborted" ]
    /\ UNCHANGED << contentVars, uiVars, localVars, normVars, cacheVars, probeVars >>

\* the fetch of one tab rejects: the task's catch logs the error
FetchReject(b, i) ==
    /\ batches[b].pc = "running"
    /\ i \in DOMAIN batches[b].tabs
    /\ batches[b].task[i] = "fetching"
    /\ batches' = [ batches EXCEPT ![b].task[i] = "failed" ]
    /\ UNCHANGED << contentVars, uiVars, localVars, normVars, cacheVars, probeVars >>

\* the same without waiting for the tasks to settle
SyncComplete_Early(b) ==
    /\ batches[b].pc = "running"
    /\ batches' = [ batches EXCEPT
                      ![b].pc = "done",
                      ![b].sent = Append(@, [ action |-> "sync-complete" ]) ]
    /\ UNCHANGED << contentVars, uiVars, localVars, normVars, cacheVars, probeVars >>

\* the same resolving as soon as one task has settled
SyncComplete_AnySettled(b) ==
    /\ batches[b].pc = "running"
    /\ \E i \in DOMAIN batches[b].tabs : batches[b].task[i] \in { "done", "failed" }
    /\ batches' = [ batches EXCEPT
                      ![b].pc = "done",
                      ![b].sent = Append(@, [ action |-> "sync-complete" ]) ]
    /\ UNCHANGED << contentVars, uiVars, localVars, normVars, cacheVars, probeVars >>

\* Promise.all resolves: sync-complete is sent
SyncComplete(b) ==
    /\ batches[b].pc = "running"
    /\ \A i \in DOMAIN batches[b].tabs : batches[b].task[i] \in { "done", "failed" }
    /\ batches' = [ batches EXCEPT
                      ![b].pc = "done",
                      ![b].sent = Append(@, [ action |-> "sync-complete" ]) ]
    /\ UNCHANGED << contentVars, uiVars, localVars, normVars, cacheVars, probeVars >>

NextSync ==
    \/ \E b \in BatchIds : SyncAll(b)
    \/ \E b \in BatchIds : \E i \in 1..MaxBatch : FetchReturn(b, i)
    \/ \E b \in BatchIds : \E i \in 1..MaxBatch : FetchReject(b, i)
    \/ \E b \in BatchIds : SyncComplete(b)

SpecSync == Init /\ [][NextSync]_vars

\* one sync-all message handled alone
NextBatch ==
    \/ SyncAll("b1")
    \/ \E i \in 1..MaxBatch : FetchReturn("b1", i)
    \/ \E i \in 1..MaxBatch : FetchReject("b1", i)
    \/ SyncComplete("b1")

SpecBatch == Init /\ [][NextBatch]_vars

\* the same, given that every fetch settles and that the continuations of
\* settled promises run
SpecBatchLive ==
    /\ Init
    /\ [][NextBatch]_vars
    /\ WF_vars(\E i \in 1..MaxBatch : FetchReturn("b1", i) \/ FetchReject("b1", i))
    /\ WF_vars(SyncComplete("b1"))

\* a second sync-all message arrives after the handling of the first has
\* finished; `earlier` keeps the tabs of the first message
SyncAllLater(b) ==
    /\ batches[b].pc = "done"
    /\ "earlier" \notin DOMAIN batches[b]
    /\ \E tabs \in SyncRequests :
        batches' = [ batches EXCEPT ![b] =
                      [ pc      |-> "running",
                        tabs    |-> tabs,
                        task    |-> [ i \in DOMAIN tabs |-> "fetching" ],
                        html    |-> [ i \in DOMAIN tabs |-> NoPage ],
                        sent    |-> << >>,
                        earlier |-> batches[b].tabs ] ]
    /\ UNCHANGED << contentVars, uiVars, localVars, normVars, cacheVars, probeVars >>

\* two sync-all messages handled one after the other
NextResync ==
    \/ NextBatch
    \/ SyncAllLater("b1")

SpecResync == Init /\ [][NextResync]_vars

\* what the cache may hold when a sync-all message arrives: nothing, or one
\* entry written earlier for the video of one of the tabs
CachedStates ==
    { << >> } \cup
    { << CacheEntry(normalizeYoutubeUrl(TabUrl(id)), m, t) >> :
        id \in TabIds, m \in MetadataInputs, t \in 0..MaxTime }

\* a sync-all message handled with such a cache
InitFresh ==
    /\ nin = NULL
    /\ nout = NULL
    /\ nout2 = NULL
    /\ storage \in CachedStates
    /\ now = MaxTime
    /\ calls = [ c \in { "c1", "c2" } |-> [ pc |-> "idle" ] ]
    /\ nwrites = 0
    /\ batches = [ b \in { "b1", "b2" } |-> [ pc |-> "idle" ] ]
    /\ local = StorageApi(TRUE)
    /\ ui = ClosedPage
    /\ content = NoContentScript
    /\ probe = [ pc |-> "idle" ]

SpecFresh == InitFresh /\ [][NextBatch]_vars

NextNorm == Normalize \/ Renormalize

SpecNorm == InitNorm /\ [][NextNorm]_vars

----------------------------------------------------------------------------
(* The live probe: probeTabs of the manager, getYouTubeTabs of the popup *)

\* Titles are sequences of tokens: a notification count "(3) ", the suffix
\* " - YouTube", or a piece of text.
NotificationPrefixes == { "(3) " }

\* title.replace(/^\(\d+\)\s*/g, "").replace(" - YouTube", "").trim()
CleanTitle(title) ==
    LET t1 == IF title # << >> /\ title[1] \in NotificationPrefixes THEN Tail(title) ELSE title
        i  == IndexOfAny(t1, { " - YouTube" })
    IN  IF i > Len(t1) THEN t1
        ELSE SubSeq(t1, 1, i - 1) \o SubSeq(t1, i + 1, Len(t1))

\* title || "YouTube Video"
TitleOrDefault(title) == IF title = << >> THEN << "YouTube Video" >> ELSE title

\* path.match(/\/shorts\/([^/?]+)/): the first place where "/shorts/" is
\* followed by a piece of text, and that piece; NULL when there is none
ShortsMatch(pathname) ==
    LET hits == { i \in 1..Len(pathname) :
                    /\ i + 3 <= Len(pathname)
                    /\ SubSeq(pathname, i, i + 2) = << "/", "shorts", "/" >>
                    /\ pathname[i + 3] # "/" }
    IN  IF hits = { } THEN NULL
        ELSE LET i    == CHOOSE k \in hits : \A j \in hits : k <= j
                 rest == SubSeq(pathname, i + 3, Len(pathname))
             IN  SubSeq(rest, 1, IndexOfAny(rest, { "/" }) - 1)

\* utils/format getVideoIdFromUrl
getVideoIdFromUrl(url) ==
    LET urlObj == ParseURL(url)
    IN  IF ~urlObj.ok THEN NULL
        ELSE IF StartsWith(urlObj.pathname, << "/", "shorts", "/" >>)
             THEN ShortsMatch(urlObj.pathname)
             ELSE SearchParamsGet(urlObj.search, << "v" >>)

\* What the injected function reads in the page:
\*   location         window.location
\*   currentTime, elementDuration   of the video element (0 when absent)
\*   player           window.ytInitialPlayerResponse: "none" or "details"
\*                    (videoDetails present)
\*   videoId, title, author, isLiveFlag, lengthSeconds    fields of videoDetails
\*   liveBroadcast    liveBroadcastDetails: "none", "running" or "ended"
\*   formatMs, reelMs approxDurationMs of streamingData and of ytInitialData,
\*                    0 when absent
\*   badge            .ytp-live-badge present, not disabled and displayed
\*   channelDom, h1, documentTitle    text of the channel link, of the first
\*                    matching heading and document.title
\*   throws           an access inside the try block throws
Dom(location, currentTime, elementDuration, player, videoId, title, author, isLiveFlag, lengthSeconds, liveBroadcast, formatMs, reelMs, badge, channelDom, h1, documentTitle, throws) ==
    [ location |-> location, currentTime |-> currentTime,
      elementDuration |-> elementDuration, player |-> player, videoId |-> videoId,
      title |-> title, author |-> author, isLiveFlag |-> isLiveFlag,
      lengthSeconds |-> lengthSeconds, liveBroadcast |-> liveBroadcast,
      formatMs |-> formatMs, reelMs |-> reelMs, badge |-> badge,
      channelDom |-> channelDom, h1 |-> h1, documentTitle |-> documentTitle,
      throws |-> throws ]

WatchA == << "https://www.youtube.com", "/", "watch", "?", "v", "=", "a", "&", "a", "=", "b" >>
WatchB == << "https://www.youtube.com", "/", "watch", "?", "v", "=", "b" >>
ShortsA == << "https://m.youtube.com", "/", "shorts", "/", "a" >>
\* a tab URL that passes the filter of fetchTabs and carries no video id
WatchNoId == << "https://www.youtube.com", "/", "watch" >>

Doms ==
    { Dom(WatchA,  42, 600, "details", << "a" >>, << "A" >>, "Ch", FALSE, 600, "none",    0,     0, FALSE, "Ch", << "A" >>, << "(3) ", "A", " - YouTube" >>, FALSE),
      Dom(WatchA,  42, 600, "details", << "a" >>, << "A" >>, "Ch", FALSE, 600, "none",    0,     0, TRUE,  "Ch", << "A" >>, << "A", " - YouTube" >>, FALSE),
      Dom(WatchB,  7,  300, "details", << "a" >>, << "A" >>, "Ch", FALSE, 600, "none",    0,     0, FALSE, "",   << >>,     << "B", " - YouTube" >>, FALSE),
      Dom(WatchB,  7,  300, "none",    NULL,      << >>,     "",   FALSE, 0,   "none",    0,     0, FALSE, "",   << "B" >>, << "B", " - YouTube" >>, FALSE),
      Dom(WatchB,  0,  0,   "details", << "b" >>, << "B" >>, "Ch", TRUE,  0,   "running", 0,     0, TRUE,  "Ch", << "B" >>, << "B", " - YouTube" >>, FALSE),
      Dom(WatchB,  7,  300, "details", << "b" >>, << "B" >>, "Ch", TRUE,  300, "running", 0,     0, FALSE, "Ch", << "B" >>, << "B", " - YouTube" >>, FALSE),
      Dom(ShortsA, 3,  0,   "details", << "a" >>, << "A" >>, "Ch", FALSE, 0,   "none",    30000, 0, FALSE, "",   << >>,     << "A", " - YouTube" >>, FALSE),
      Dom(WatchA,  0,  300, "none",    NULL,      << >>,     "",   FALSE, 0,   "none",    0,     0, FALSE, "",   << >>,     << " - YouTube" >>, TRUE) }

\* the video id of window.location as the manager's injected function takes it
CurrentVideoId(dom) ==
    LET u      == ParseURL(dom.location)
        v      == SearchParamsGet(u.search, << "v" >>)
        shorts == IF /\ StartsWith(u.pathname, << "/", "shorts", "/" >>)
                     /\ Len(u.pathname) >= 4
                     /\ u.pathname[4] # "/"
                  THEN ShortsMatch(u.pathname) ELSE NULL
    IN  IF Truthy(v) THEN v ELSE IF Truthy(shorts) THEN shorts ELSE NULL

\* playerResponse?.videoDetails?.videoId
PlayerVideoId(dom) == IF dom.player = "details" THEN dom.videoId ELSE NULL

isSpaTransition(dom) ==
    /\ Truthy(PlayerVideoId(dom))
    /\ Truthy(CurrentVideoId(dom))
    /\ PlayerVideoId(dom) # CurrentVideoId(dom)

\* the result of an injected function, all three shapes in one record
Result(kind, dom, duration, channelName, title, isLive) ==
    [ kind |-> kind, currentTime |-> dom.currentTime,
      currentVideoId |-> CurrentVideoId(dom), duration |-> duration,
      channelName |-> channelName, title |-> title, isLive |-> isLive ]

\* parseInt(videoDetails.lengthSeconds) || 0, 0 without videoDetails
PlayerLength(dom) == IF dom.player = "details" THEN dom.lengthSeconds ELSE 0

\* isLive after the structured data: the flag, then a broadcast without end,
\* then a length, which resets it
StructuredLive(dom) ==
    IF PlayerLength(dom) > 0 THEN FALSE
    ELSE dom.player = "details" /\ (dom.isLiveFlag \/ dom.liveBroadcast = "running")

\* isLive after the live badge
ScrapedLive(dom) == StructuredLive(dom) \/ dom.badge

\* the manager's two fallbacks for a /shorts/ page without a length
ShortsDuration(dom) ==
    IF StartsWith(ParseURL(dom.location).pathname, << "/", "shorts", "/" >>)
    THEN IF dom.formatMs \div 1000 # 0 THEN dom.formatMs \div 1000 ELSE dom.reelMs \div 1000
    ELSE 0

\* duration before the video element is consulted
StructuredDuration(dom, shortsFallbacks) ==
    IF PlayerLength(dom) = 0 /\ shortsFallbacks THEN ShortsDuration(dom) ELSE PlayerLength(dom)

\* isLive ? 0 : duration || videoElement?.duration || 0
ScrapedDuration(dom, isLive, duration) ==
    IF isLive THEN 0 ELSE IF duration # 0 THEN duration ELSE dom.elementDuration

\* videoDetails?.title || heading || document.title
RawTitle(dom) ==
    IF dom.player = "details" /\ dom.title # << >> THEN dom.title
    ELSE IF dom.h1 # << >> THEN dom.h1 ELSE dom.documentTitle

\* channel || videoDetails?.author || ""
ScrapedChannel(dom) ==
    IF dom.channelDom # "" THEN dom.channelDom
    ELSE IF dom.player = "details" THEN dom.author ELSE ""

\* the scrape of the injected functions; shortsFallbacks: the manager's two
\* duration fallbacks for /shorts/ pages
Scrape(dom, shortsFallbacks) ==
    IF dom.throws
    THEN Result("full", dom, dom.elementDuration, dom.channelDom,
                TitleOrDefault(CleanTitle(dom.documentTitle)), FALSE)
    ELSE Result("full", dom,
                ScrapedDuration(dom, ScrapedLive(dom), StructuredDuration(dom, shortsFallbacks)),
                ScrapedChannel(dom),
                TitleOrDefault(CleanTitle(RawTitle(dom))),
                ScrapedLive(dom))

\* the function the manager injects
ManagerInjected(dom, hasMetadata) ==
    IF hasMetadata /\ ~isSpaTransition(dom)
    THEN Result("skip", dom, 0, "", << >>, FALSE)
    ELSE IF isSpaTransition(dom)
    THEN Result("spa", dom, 0, "", << >>, FALSE)
    ELSE Scrape(dom, TRUE)

\* the function the popup injects
PopupInjected(dom, hasMetadata) ==
    IF hasMetadata
    THEN Result("skip", dom, 0, "", << >>, FALSE)
    ELSE Scrape(dom, FALSE)

\* the tab URLs the manager and the popup keep: watch and shorts pages
ProbeUrls == { WatchA, WatchB, ShortsA, WatchNoId }

\* the video entry as built from the tab and the cache before probing
Video(title, channelName, seconds, currentTime, isLive) ==
    [ title |-> title, channelName |-> channelName, seconds |-> seconds,
      currentTime |-> currentTime, isLive |-> isLive, suspended |-> FALSE ]

Videos ==
    { Video(<< "A" >>, "Ch", 600, 90, FALSE),
      Video(<< "YouTube Video" >>, "", 0, 0, FALSE),
      Video(<< "B" >>, "Other", 0, 5, TRUE) }

hasValidMetadata(video) ==
    /\ video.seconds > 0
    /\ video.title # << "YouTube Video" >>
    /\ video.title # << "YouTube" >>
    /\ ~(video.title # << >> /\ video.title[1] \in NotificationPrefixes)

\* the content script's answer to get-metadata; none: no answer (null)
ContentMeta(none, videoId, title, channelName, seconds, currentTime, isLive) ==
    [ none |-> none, videoId |-> videoId, title |-> title,
      channelName |-> channelName, seconds |-> seconds,
      currentTime |-> currentTime, isLive |-> isLive ]

NoMeta == ContentMeta(TRUE, NULL, << >>, "", 0, 0, FALSE)

ContentMetas ==
    { NoMeta,
      ContentMeta(FALSE, << "a" >>, << "A" >>, "Ch", 600, 42, FALSE),
      ContentMeta(FALSE, << "b" >>, << "B" >>, "Ch", 0, 0, TRUE),
      ContentMeta(FALSE, << "b" >>, << "B" >>, "Ch", 0, 7, FALSE),
      ContentMeta(FALSE, NULL,      << "A" >>, "Ch", 600, 42, FALSE) }

\* the arguments of requestMetadataUpdate for a video entry
MetadataOf(video) ==
    [ seconds |-> video.seconds, title |-> video.title,
      channelName |-> video.channelName, currentTime |-> video.currentTime,
      isLive |-> video.isLive ]

\* the video entry taking every field of a content-script answer
TakeMeta(video, meta) ==
    [ video EXCEPT !.title = meta.title, !.channelName = meta.channelName,
                   !.seconds = meta.seconds, !.currentTime = meta.currentTime,
                   !.isLive = meta.isLive ]

\* the video entry taking a scrape result
TakeResult(video, result) ==
    [ video EXCEPT !.title = IF result.title # << >> THEN result.title ELSE @,
                   !.channelName = IF result.channelName # "" THEN result.channelName ELSE @,
                   !.seconds = result.duration,
                   !.currentTime = result.currentTime,
                   !.isLive = result.isLive ]

NoDom == Dom(<< >>, 0, 0, "none", NULL, << >>, "", FALSE, 0, "none", 0, 0, FALSE, "", << >>, << >>, FALSE)

NoResult == [ kind |-> "none", currentTime |-> 0, currentVideoId |-> NULL,
              duration |-> 0, channelName |-> "", title |-> << >>, isLive |-> FALSE ]

\* the tasks a refresh may start: one video of the manager's probeTabs, or one
\* video of the popup's getYouTubeTabs with smart sync on or off
ProbeTasks ==
    { [ pc |-> "start", who |-> w[1], smartSync |-> w[2], url |-> url, video |-> video,
        dom |-> NoDom, result |-> NoResult, meta |-> NoMeta, tries |-> 0,
        requests |-> << >>, syncAsked |-> FALSE ] :
        w \in { << "manager", FALSE >>, << "popup", FALSE >>, << "popup", TRUE >> },
        url \in ProbeUrls, video \in Videos }

InitProbe ==
    /\ nin = NULL
    /\ nout = NULL
    /\ nout2 = NULL
    /\ storage = << >>
    /\ now = 0
    /\ calls = [ c \in { "c1", "c2" } |-> [ pc |-> "idle" ] ]
    /\ nwrites = 0
    /\ batches = [ b \in { "b1", "b2" } |-> [ pc |-> "idle" ] ]
    /\ local = StorageApi(TRUE)
    /\ ui = ClosedPage
    /\ content = NoContentScript
    /\ probe \in ProbeTasks

\* the test of probeTabs on the content script's first answer
ContentAccepts(contentMeta, expectedVideoId) ==
    /\ ~contentMeta.none
    /\ contentMeta.videoId # NULL
    /\ contentMeta.videoId = expectedVideoId
    /\ contentMeta.title # << >>
    /\ (contentMeta.seconds > 0 \/ contentMeta.isLive)

\* getVideoIdFromUrl(video.url) of the tabs probed
VideoIdOfTab == [ url \in ProbeUrls |-> getVideoIdFromUrl(url) ]

\* probeTabs asks the content script first
ContentQuery ==
    /\ probe.pc = "start"
    /\ probe.who = "manager"
    /\ \E contentMeta \in ContentMetas :
        IF ContentAccepts(contentMeta, VideoIdOfTab[probe.url])
        THEN probe' = [ probe EXCEPT !.pc = "done", !.meta = contentMeta,
                                     !.video = TakeMeta(@, contentMeta),
                                     !.requests = Append(@, MetadataOf(TakeMeta(probe.video, contentMeta))) ]
        ELSE probe' = [ probe EXCEPT !.pc = "inject", !.meta = contentMeta ]
    /\ UNCHANGED << contentVars, uiVars, localVars, normVars, cacheVars, syncVars >>

\* what probeTabs does with the injected function's result
HandleResult(dom, result) ==
    CASE result.kind = "spa" ->
            probe' = [ probe EXCEPT !.pc = "try", !.dom = dom, !.result = result,
                                    !.video.currentTime = result.currentTime ]
      [] result.kind = "skip" ->
            probe' = [ probe EXCEPT !.pc = "done", !.dom = dom, !.result = result,
                                    !.video.currentTime = result.currentTime ]
      [] OTHER ->
            IF \/ (result.title # << "Loading..." >> /\ result.title # << "YouTube Video" >>)
               \/ result.duration > 0
               \/ result.isLive
            THEN probe' = [ probe EXCEPT
                              !.pc = "done", !.dom = dom, !.result = result,
                              !.video = TakeResult(@, result),
                              !.requests = IF result.duration > 0 \/ result.isLive
                                           THEN Append(@, MetadataOf(TakeResult(probe.video, result)))
                                           ELSE @ ]
            ELSE probe' = [ probe EXCEPT !.pc = "done", !.dom = dom, !.result = result ]

\* what the manager's injected function returns, by page and by hasMetadata
ManagerResults == [ dom \in Doms |-> [ hasMetadata \in BOOLEAN |-> ManagerInjected(dom, hasMetadata) ] ]

\* probeTabs runs the injected function and handles its result
Inject ==
    /\ probe.pc = "inject"
    /\ \E dom \in Doms : HandleResult(dom, ManagerResults[dom][hasValidMetadata(probe.video)])
    /\ UNCHANGED << contentVars, uiVars, localVars, normVars, cacheVars, syncVars >>

\* executeScript rejects or returns no result: the task ends
InjectFails ==
    /\ probe.pc = "inject"
    /\ probe' = [ probe EXCEPT !.pc = "failed" ]
    /\ UNCHANGED << contentVars, uiVars, localVars, normVars, cacheVars, syncVars >>

\* the same accepting metadata of any video
tryContentScriptAccepts_AnyVideo(meta, expectedVideoId) ==
    /\ ~meta.none
    /\ meta.title # << >>
    /\ (meta.seconds > 0 \/ meta.isLive)

\* the test of tryContentScript on the content script's answer
tryContentScriptAccepts(meta, expectedVideoId) ==
    /\ ~meta.none
    /\ meta.videoId = expectedVideoId
    /\ meta.title # << >>
    /\ (meta.seconds > 0 \/ meta.isLive)

\* after an SPA transition: one call of tryContentScript and what follows it
tryContentScript ==
    /\ probe.pc = "try"
    /\ \E meta \in ContentMetas :
        IF tryContentScriptAccepts(meta, VideoIdOfTab[probe.url])
        THEN probe' = [ probe EXCEPT
                          !.pc = "done", !.meta = meta, !.tries = @ + 1,
                          !.video = TakeMeta(@, meta),
                          !.requests = IF meta.seconds > 0 \/ meta.isLive
                                       THEN Append(@, MetadataOf(TakeMeta(probe.video, meta)))
                                       ELSE @ ]
        ELSE probe' = [ probe EXCEPT
                          !.pc = IF probe.tries = 0 THEN "backoff" ELSE "done",
                          !.meta = meta, !.tries = @ + 1 ]
    /\ UNCHANGED << contentVars, uiVars, localVars, normVars, cacheVars, syncVars >>

\* the same forgetting that a call was already made
Backoff_Restart ==
    /\ probe.pc = "backoff"
    /\ probe' = [ probe EXCEPT !.pc = "try", !.tries = 0 ]
    /\ UNCHANGED << contentVars, uiVars, localVars, normVars, cacheVars, syncVars >>

\* the 500 ms timer between the two calls elapses
Backoff ==
    /\ probe.pc = "backoff"
    /\ probe' = [ probe EXCEPT !.pc = "try" ]
    /\ UNCHANGED << contentVars, uiVars, localVars, normVars, cacheVars, syncVars >>

\* what the popup does with the injected function's result
PopupHandleResult(dom, result) ==
    CASE result.kind = "skip" ->
            probe' = [ probe EXCEPT !.pc = "done", !.dom = dom, !.result = result,
                                    !.video.currentTime = result.currentTime ]
      [] OTHER ->
            IF result.duration = 0 /\ ~result.isLive
            THEN probe' = [ probe EXCEPT !.pc = "done", !.dom = dom, !.result = result,
                                         !.syncAsked = probe.smartSync ]
            ELSE probe' = [ probe EXCEPT !.pc = "done", !.dom = dom, !.result = result,
                                         !.video = TakeResult(@, result),
                                         !.requests = Append(@, MetadataOf(TakeResult(probe.video, result))) ]

\* what the popup's injected function returns, by page and by hasMetadata
PopupResults == [ dom \in Doms |-> [ hasMetadata \in BOOLEAN |-> PopupInjected(dom, hasMetadata) ] ]

\* the popup runs its injected function and handles the result
PopupInject ==
    /\ probe.pc = "start"
    /\ probe.who = "popup"
    /\ \E dom \in Doms : PopupHandleResult(dom, PopupResults[dom][hasValidMetadata(probe.video)])
    /\ UNCHANGED << contentVars, uiVars, localVars, normVars, cacheVars, syncVars >>

\* the popup's executeScript rejects: the video is marked suspended
PopupInjectFails ==
    /\ probe.pc = "start"
    /\ probe.who = "popup"
    /\ probe' = [ probe EXCEPT !.pc = "failed", !.video.suspended = TRUE,
                               !.syncAsked = probe.smartSync ]
    /\ UNCHANGED << contentVars, uiVars, localVars, normVars, cacheVars, syncVars >>

NextProbe ==
    \/ ContentQuery
    \/ Inject
    \/ InjectFails
    \/ tryContentScript
    \/ Backoff
    \/ PopupInject
    \/ PopupInjectFails

SpecProbe == InitProbe /\ [][NextProbe]_vars

\* the entry fetchTabs builds for a tab whose URL has a cache entry
CachedVideo(cached) ==
    Video(IF cached.title # << >> THEN cached.title ELSE << "YouTube Video" >>,
          cached.channelName, cached.seconds, cached.currentTime, cached.isLive)

\* the entries the next refresh may build for the tab of a finished task: one
\* without cached metadata, or the one cached from what the task pushed
NextVideos(task) ==
    Videos \cup { CachedVideo(task.requests[n]) : n \in DOMAIN task.requests }

\* the next refresh trigger: fetchTabs rebuilds the entry and probes the tab again
Refresh ==
    /\ probe.pc \in { "done", "failed" }
    /\ \E video \in NextVideos(probe) :
        probe' = [ pc |-> "start", who |-> probe.who, smartSync |-> probe.smartSync,
                   url |-> probe.url, video |-> video, dom |-> NoDom, result |-> NoResult,
                   meta |-> NoMeta, tries |-> 0, requests |-> << >>, syncAsked |-> FALSE ]
    /\ UNCHANGED << contentVars, uiVars, localVars, normVars, cacheVars, syncVars >>

NextCycle == NextProbe \/ Refresh

\* refresh after refresh, given that every message and every script injection
\* resolves or rejects and that timers fire
SpecCycle == InitProbe /\ [][NextCycle]_vars /\ WF_vars(NextProbe)

----------------------------------------------------------------------------
(* The content script (entrypoints/youtube.content.ts)                     *)

\* the debounce delay, in clock ticks of 75 ms
DEBOUNCE_MS == 2

\* the clock stops at this tick
MaxClock == 4

\* DOM mutations and history events in one run
MaxEvents == 3

\* a page of the tab that is neither a watch nor a shorts page
HomeDom == Dom(<< "https://www.youtube.com", "/" >>, 0, 0, "none", NULL, << >>, "", FALSE, 0, "none", 0, 0, FALSE, "", << >>, << "YouTube" >>, FALSE)

\* the pages the tab shows while the content script runs
ContentDoms ==
    { Dom(WatchA,  42, 600, "details", << "a" >>, << "A" >>, "Ch", FALSE, 600, "none",    0,     0, FALSE, "Ch", << "A" >>, << "(3) ", "A", " - YouTube" >>, FALSE),
      Dom(WatchB,  0,  0,   "details", << "b" >>, << "B" >>, "Ch", TRUE,  0,   "running", 0,     0, TRUE,  "Ch", << "B" >>, << "B", " - YouTube" >>, FALSE),
      Dom(WatchB,  7,  300, "details", << "b" >>, << "B" >>, "Ch", FALSE, 300, "none",    0,     0, TRUE,  "",   << >>,     << "B", " - YouTube" >>, FALSE),
      Dom(ShortsA, 3,  0,   "details", << "a" >>, << "A" >>, "Ch", FALSE, 0,   "none",    30000, 0, FALSE, "",   << >>,     << "A", " - YouTube" >>, FALSE),
      HomeDom }

\* the text of .ytp-time-duration split at ":" and parsed, << >> when absent
TimeTexts == { << >>, << 0, 31 >> }

\* isWatchOrShorts()
isWatchOrShorts(dom) ==
    LET path == ParseURL(dom.location).pathname
    IN  StartsWith(path, << "/", "watch" >>) \/ StartsWith(path, << "/", "shorts", "/" >>)

\* getVideoIdFromLocation()
getVideoIdFromLocation(dom) ==
    LET u == ParseURL(dom.location)
    IN  IF StartsWith(u.pathname, << "/", "shorts", "/" >>) THEN ShortsMatch(u.pathname)
        ELSE IF u.pathname = << "/", "watch" >> /\ u.search # << >>
             THEN SearchParamsGet(u.search, << "v" >>)
             ELSE NULL

\* parseDurationFromTimeText(text)
parseDurationFromTimeText(parts) ==
    CASE Len(parts) = 3 -> parts[1] * 3600 + parts[2] * 60 + parts[3]
      [] Len(parts) = 2 -> parts[1] * 60 + parts[2]
      [] Len(parts) = 1 -> parts[1]
      [] OTHER -> 0

\* readMetadataFromDom()
readMetadataFromDom(dom, timeText) ==
    LET duration == IF dom.elementDuration > 0 THEN dom.elementDuration
                    ELSE IF timeText # << >> THEN parseDurationFromTimeText(timeText)
                    ELSE 0
        title    == CleanTitle(IF dom.h1 # << >> THEN dom.h1 ELSE dom.documentTitle)
        isLive   == dom.badge
    IN  ContentMeta(FALSE, getVideoIdFromLocation(dom), TitleOrDefault(title), dom.channelDom,
                    IF isLive THEN 0 ELSE duration, dom.currentTime, isLive)

\* what the content script reads on each of the pages
DomReads == [ dom \in ContentDoms |-> [ timeText \in TimeTexts |-> readMetadataFromDom(dom, timeText) ] ]

\* scheduleRead() that leaves the pending timer running
scheduleRead_NoClear(c) ==
    [ c EXCEPT !.timers = @ \cup { [ id |-> c.nextId, due |-> c.clock + DEBOUNCE_MS ] },
               !.debounceTimer = c.nextId,
               !.nextId = @ + 1,
               !.lastEvent = c.clock ]

\* scheduleRead(): the pending timer is cleared and a new one is set
scheduleRead(c) ==
    [ c EXCEPT !.timers = { t \in @ : t.id # c.debounceTimer }
                            \cup { [ id |-> c.nextId, due |-> c.clock + DEBOUNCE_MS ] },
               !.debounceTimer = c.nextId,
               !.nextId = @ + 1,
               !.lastEvent = c.clock ]

\* the content script before main(): debounceTimer 0 is null, response is the
\* last answer to get-metadata
LoadedScript(dom) ==
    [ running |-> TRUE, dom |-> dom, clock |-> 0, timers |-> { }, debounceTimer |-> 0,
      nextId |-> 1, lastEvent |-> 0, events |-> 0,
      lastMetadata |-> ContentMeta(FALSE, NULL, << >>, "", 0, 0, FALSE),
      totalMutations |-> 0, totalReads |-> 0, mutationsSinceLastRead |-> 0,
      response |-> NoMeta ]

\* the content script after main() on a watch or shorts page
StartedScript(dom, timeText) ==
    scheduleRead([ LoadedScript(dom) EXCEPT !.lastMetadata = DomReads[dom][timeText], !.totalReads = 1 ])

InitContent ==
    /\ nin = NULL
    /\ nout = NULL
    /\ nout2 = NULL
    /\ storage = << >>
    /\ now = 0
    /\ calls = [ c \in { "c1", "c2" } |-> [ pc |-> "idle" ] ]
    /\ nwrites = 0
    /\ batches = [ b \in { "b1", "b2" } |-> [ pc |-> "idle" ] ]
    /\ probe = [ pc |-> "idle" ]
    /\ local = StorageApi(TRUE)
    /\ ui = ClosedPage
    /\ content \in { StartedScript(dom, timeText) : dom \in { d \in ContentDoms : isWatchOrShorts(d) }, timeText \in TimeTexts }

\* the MutationObserver's callback: the page changed under #primary
DomMutation ==
    /\ content.running
    /\ content.events < MaxEvents
    /\ \E dom \in ContentDoms :
        content' = scheduleRead([ content EXCEPT !.dom = dom, !.events = @ + 1,
                                                 !.totalMutations = @ + 1,
                                                 !.mutationsSinceLastRead = @ + 1 ])
    /\ UNCHANGED << uiVars, localVars, normVars, cacheVars, syncVars, probeVars >>

\* popstate or hashchange: the location changed
HistoryEvent ==
    /\ content.running
    /\ content.events < MaxEvents
    /\ \E dom \in ContentDoms :
        content' = scheduleRead([ content EXCEPT !.dom = dom, !.events = @ + 1 ])
    /\ UNCHANGED << uiVars, localVars, normVars, cacheVars, syncVars, probeVars >>

\* a timer set by scheduleRead fires: the read is skipped off watch pages
TimerFires ==
    /\ content.running
    /\ \E t \in content.timers, timeText \in TimeTexts :
        /\ t.due <= content.clock
        /\ content' =
            IF isWatchOrShorts(content.dom)
            THEN [ content EXCEPT !.timers = @ \ { t }, !.debounceTimer = 0,
                                  !.lastMetadata = DomReads[content.dom][timeText],
                                  !.totalReads = @ + 1, !.mutationsSinceLastRead = 0 ]
            ELSE [ content EXCEPT !.timers = @ \ { t }, !.debounceTimer = 0 ]
    /\ UNCHANGED << uiVars, localVars, normVars, cacheVars, syncVars, probeVars >>

\* 75 ms pass; a timer that is due fires before the clock moves on
Tick ==
    /\ content.running
    /\ content.clock < MaxClock
    /\ \A t \in content.timers : t.due > content.clock
    /\ content' = [ content EXCEPT !.clock = @ + 1 ]
    /\ UNCHANGED << uiVars, localVars, normVars, cacheVars, syncVars, probeVars >>

\* the get-metadata message: on a watch or shorts page the page is read at
\* once, outside the debounce; lastMetadata is the response
GetMetadata ==
    /\ content.running
    /\ \E timeText \in TimeTexts :
        LET metadata == IF isWatchOrShorts(content.dom)
                        THEN DomReads[content.dom][timeText]
                        ELSE content.lastMetadata
        IN  content' = [ content EXCEPT !.lastMetadata = metadata, !.response = metadata ]
    /\ UNCHANGED << uiVars, localVars, normVars, cacheVars, syncVars, probeVars >>

NextContent ==
    \/ DomMutation
    \/ HistoryEvent
    \/ TimerFires
    \/ Tick
    \/ GetMetadata

SpecContent == InitContent /\ [][NextContent]_vars

----------------------------------------------------------------------------
(* utils/storage.ts without browser.storage.local                          *)

\* calls of loadStorage and saveStorage in one run
MaxCalls == 2

\* an optional argument that was not passed
UNDEFINED == "undefined"

\* what loadStorage returns when there is no storage API
EmptyDefaults ==
    [ sortByDuration |-> FALSE, excludedUrls |-> << >>, thumbnailQuality |-> "high",
      layoutMode |-> "grid", groupingMode |-> "none", sortOption |-> "duration-desc",
      metadataCache |-> << >> ]

\* data[key] || fallback, and Boolean(data[key]) with fallback FALSE: the
\* values saveStorage stores under these keys are truthy, or booleans
StoredOr(prefs, key, fallback) == IF prefs[key] = << >> THEN fallback ELSE prefs[key][1]

\* the value loadStorage() resolves to
loadStorage(api, cache) ==
    IF ~api.available
    THEN EmptyDefaults
    ELSE [ sortByDuration   |-> StoredOr(api.prefs, "sortByDuration", FALSE),
           excludedUrls     |-> StoredOr(api.prefs, "excludedUrls", << >>),
           thumbnailQuality |-> StoredOr(api.prefs, "thumbnailQuality", "high"),
           layoutMode       |-> StoredOr(api.prefs, "layoutMode", "grid"),
           groupingMode     |-> StoredOr(api.prefs, "groupingMode", "none"),
           sortOption       |-> StoredOr(api.prefs, "sortOption", "duration-desc"),
           metadataCache    |-> cache ]

\* loadStorage() is called and returns
LoadStorage ==
    /\ local.ncalls < MaxCalls
    /\ local' = [ local EXCEPT !.ncalls = @ + 1,
                               !.ret = [ op |-> "loadStorage", threw |-> FALSE,
                                         value |-> loadStorage(local, storage) ] ]
    /\ UNCHANGED << contentVars, uiVars, normVars, cacheVars, syncVars, probeVars >>

\* videoData.filter((video) => video.excluded).map((video) => video.url)
RECURSIVE ExcludedUrlsOf(_)
ExcludedUrlsOf(videoData) ==
    IF videoData = << >> THEN << >>
    ELSE IF Head(videoData).excluded
         THEN << Head(videoData).url >> \o ExcludedUrlsOf(Tail(videoData))
         ELSE ExcludedUrlsOf(Tail(videoData))

\* the lists of videos handed to saveStorage
VideoDatas ==
    { << >>,
      << [ url |-> WatchA, excluded |-> TRUE ], [ url |-> WatchB, excluded |-> FALSE ] >> }

\* the optional arguments handed to saveStorage
SaveOptions ==
    { [ thumbnailQuality |-> UNDEFINED,  layoutMode |-> UNDEFINED, groupingMode |-> UNDEFINED, sortOption |-> UNDEFINED ],
      [ thumbnailQuality |-> "standard", layoutMode |-> UNDEFINED, groupingMode |-> "channel", sortOption |-> "title-asc" ] }

\* if (value) data[key] = value, followed by storage.local.set(data); the values
\* passed are undefined, the booleans "true" and "false", or non-empty strings
SetIfPassed(stored, value) == IF value \in { UNDEFINED, "false" } THEN stored ELSE << value >>

\* the preferences in storage.local after saveStorage's storage.local.set(data)
SavedPrefs(prefs, videoData, sortByDuration, options) ==
    [ prefs EXCEPT
        !.sortByDuration   = << sortByDuration >>,
        !.excludedUrls     = << IF Len(videoData) > 0
                                THEN ExcludedUrlsOf(videoData)
                                ELSE StoredOr(prefs, "excludedUrls", << >>) >>,
        !.thumbnailQuality = SetIfPassed(@, options.thumbnailQuality),
        !.layoutMode       = SetIfPassed(@, options.layoutMode),
        !.groupingMode     = SetIfPassed(@, options.groupingMode),
        !.sortOption       = SetIfPassed(@, options.sortOption) ]

\* saveStorage(videoData, sortByDuration, ...) is called and returns: nothing
\* happens without storage.local, otherwise the preferences are read and written
SaveStorage ==
    /\ local.ncalls < MaxCalls
    /\ \E videoData \in VideoDatas, sortByDuration \in BOOLEAN, options \in SaveOptions :
        local' = [ local EXCEPT !.ncalls = @ + 1,
                                !.ret = [ op |-> "saveStorage", threw |-> FALSE ],
                                !.prefs = IF local.available
                                          THEN SavedPrefs(@, videoData, sortByDuration, options)
                                          ELSE @ ]
    /\ UNCHANGED << contentVars, uiVars, normVars, cacheVars, syncVars, probeVars >>

\* updateMetadataCache without storage.local: browser.storage.local.get
\* dereferences undefined, and the promise of the call is rejected
UpdateGetThrows(c) ==
    /\ calls[c].pc = "get"
    /\ ~local.available
    /\ calls' = [ calls EXCEPT ![c] = IdleCall ]
    /\ local' = [ local EXCEPT !.ret = [ op |-> "updateMetadataCache", threw |-> TRUE, error |-> THROWN ] ]
    /\ UNCHANGED << contentVars, uiVars, normVars, syncVars, probeVars, storage, now, nwrites >>

\* metadata of a video with a known duration
WatchedMetadata == { m \in MetadataInputs : m.seconds > 0 }

\* an extension context with or without the storage API
InitStore ==
    /\ nin = NULL
    /\ nout = NULL
    /\ nout2 = NULL
    /\ storage = << >>
    /\ now = 0
    /\ calls = [ c \in { "c1", "c2" } |-> [ pc |-> "idle" ] ]
    /\ nwrites = 0
    /\ batches = [ b \in { "b1", "b2" } |-> [ pc |-> "idle" ] ]
    /\ probe = [ pc |-> "idle" ]
    /\ local \in { StorageApi(TRUE), StorageApi(FALSE) }
    /\ ui = ClosedPage
    /\ content = NoContentScript

\* the operations of utils/storage.ts, one caller at a time
NextStore ==
    \/ LoadStorage
    \/ SaveStorage
    \/ UpdateBegin("c1", WatchedMetadata)
    \/ UpdateGet("c1")
    \/ UpdateGetThrows("c1")
    \/ UpdateSet("c1")
    \/ ClearCache

SpecStore == InitStore /\ [][NextStore]_vars

----------------------------------------------------------------------------
(* The preferences of the popup and of the manager page                    *)

\* the popup's module-level variables when its script starts (metadataCache is
\* the constant of the last getYouTubeTabs run)
PopupGlobals == [ who |-> "popup", videoData |-> << >>, sortByDuration |-> FALSE, smartSync |-> "true", metadataCache |-> << >>, last |-> "start" ]

\* the manager's module-level variables when its script starts
ManagerGlobals == [ who |-> "manager", allVideos |-> << >>, groupingMode |-> "none", layoutMode |-> "grid", thumbnailQuality |-> "high", sortOption |-> "duration-desc", metadataCache |-> << >>, last |-> "start" ]

\* the URLs of the open YouTube tabs
OpenTabUrls == << WatchA, WatchB >>

\* excludedUrls.includes(url)
Includes(urls, url) == \E i \in 1..Len(urls) : urls[i] = url

\* the video entries built from the open tabs: excluded: excludedUrls.includes(url)
EntriesOf(excludedUrls) == [ i \in 1..Len(OpenTabUrls) |-> [ url |-> OpenTabUrls[i], excluded |-> Includes(excludedUrls, OpenTabUrls[i]) ] ]

\* a field of the object loadStorage resolved to: undefined when it has none
Field(object, key) == IF key \in DOMAIN object THEN object[key] ELSE UNDEFINED

\* the popup's saveStorage(): saveStorageUtil(videoData, sortByDuration, smartSync),
\* whose third parameter is thumbnailQuality
PopupSaved(prefs, globals) ==
    SavedPrefs(prefs, globals.videoData, globals.sortByDuration,
               [ thumbnailQuality |-> globals.smartSync, layoutMode |-> UNDEFINED,
                 groupingMode |-> UNDEFINED, sortOption |-> UNDEFINED ])

\* the popup's variables after getYouTubeTabs assigned them from loadStorage()
PopupLoaded(globals, loaded, last) ==
    [ globals EXCEPT !.sortByDuration = loaded.sortByDuration,
                     !.smartSync = Field(loaded, "smartSync"),
                     !.metadataCache = loaded.metadataCache,
                     !.videoData = EntriesOf(loaded.excludedUrls),
                     !.last = last ]

\* getYouTubeTabs of the popup, up to the list of videos
PopupLoad ==
    /\ ui.who = "popup"
    /\ ui' = PopupLoaded(ui, loadStorage(local, storage), "loaded")
    /\ UNCHANGED << contentVars, localVars, normVars, cacheVars, syncVars, probeVars >>

\* the popup's sort-order and sort-duration buttons
PopupSort ==
    /\ ui.who = "popup"
    /\ \E sortByDuration \in BOOLEAN :
        LET globals == [ ui EXCEPT !.sortByDuration = sortByDuration, !.last = "saved" ]
        IN  /\ ui' = globals
            /\ local' = [ local EXCEPT !.prefs = PopupSaved(@, globals) ]
    /\ UNCHANGED << contentVars, normVars, cacheVars, syncVars, probeVars >>

\* the popup's smart-sync toggle
PopupSmartSync ==
    /\ ui.who = "popup"
    /\ \E checked \in { "true", "false" } :
        LET globals == [ ui EXCEPT !.smartSync = checked, !.last = "saved" ]
        IN  /\ ui' = globals
            /\ local' = [ local EXCEPT !.prefs = PopupSaved(@, globals) ]
    /\ UNCHANGED << contentVars, normVars, cacheVars, syncVars, probeVars >>

\* the popup's Show/Hide button of one video
PopupToggle ==
    /\ ui.who = "popup"
    /\ \E i \in 1..Len(ui.videoData) :
        LET globals == [ ui EXCEPT !.videoData[i].excluded = ~@, !.last = "saved" ]
        IN  /\ ui' = globals
            /\ local' = [ local EXCEPT !.prefs = PopupSaved(@, globals) ]
    /\ UNCHANGED << contentVars, normVars, cacheVars, syncVars, probeVars >>

\* the manager's variables after fetchTabs assigned them from loadStorage()
ManagerLoaded(globals, loaded, last) ==
    [ globals EXCEPT !.metadataCache = loaded.metadataCache,
                     !.thumbnailQuality = loaded.thumbnailQuality,
                     !.groupingMode = loaded.groupingMode,
                     !.layoutMode = loaded.layoutMode,
                     !.sortOption = loaded.sortOption,
                     !.allVideos = EntriesOf(loaded.excludedUrls),
                     !.last = last ]

\* fetchTabs of the manager, up to the list of videos
ManagerLoad ==
    /\ ui.who = "manager"
    /\ ui' = ManagerLoaded(ui, loadStorage(local, storage), "loaded")
    /\ UNCHANGED << contentVars, localVars, normVars, cacheVars, syncVars, probeVars >>

\* saveSettings(): the sort flag is read back with loadStorage, the rest is
\* taken from the manager's variables
saveSettings(api, cache, globals) ==
    SavedPrefs(api.prefs, globals.allVideos, loadStorage(api, cache).sortByDuration,
               [ thumbnailQuality |-> globals.thumbnailQuality, layoutMode |-> globals.layoutMode,
                 groupingMode |-> globals.groupingMode, sortOption |-> globals.sortOption ])

\* what the manager's settings controls assign
ManagerChoices ==
    { [ key |-> "groupingMode", value |-> "none" ], [ key |-> "groupingMode", value |-> "channel" ],
      [ key |-> "layoutMode", value |-> "list" ], [ key |-> "layoutMode", value |-> "grid" ],
      [ key |-> "thumbnailQuality", value |-> "standard" ], [ key |-> "thumbnailQuality", value |-> "high" ],
      [ key |-> "sortOption", value |-> "title-asc" ], [ key |-> "sortOption", value |-> "duration-desc" ] }

\* one of the manager's settings controls: the variable is assigned and saveSettings() runs
ManagerSet ==
    /\ ui.who = "manager"
    /\ \E choice \in ManagerChoices :
        LET globals == [ ui EXCEPT ![choice.key] = choice.value, !.last = "saved" ]
        IN  /\ ui' = globals
            /\ local' = [ local EXCEPT !.prefs = saveSettings(local, storage, globals) ]
    /\ UNCHANGED << contentVars, normVars, cacheVars, syncVars, probeVars >>

\* the popup or the manager page opened over some metadata cache
InitPrefs ==
    /\ nin = NULL
    /\ nout = NULL
    /\ nout2 = NULL
    /\ storage \in CachedStates
    /\ now = MaxTime
    /\ calls = [ c \in { "c1", "c2" } |-> [ pc |-> "idle" ] ]
    /\ nwrites = 0
    /\ batches = [ b \in { "b1", "b2" } |-> [ pc |-> "idle" ] ]
    /\ probe = [ pc |-> "idle" ]
    /\ local = StorageApi(TRUE)
    /\ ui \in { PopupGlobals, ManagerGlobals }
    /\ content = NoContentScript

NextPrefs ==
    \/ PopupLoad
    \/ PopupSort
    \/ PopupSmartSync
    \/ PopupToggle
    \/ ManagerLoad
    \/ ManagerSet

SpecPrefs == InitPrefs /\ [][NextPrefs]_vars

----------------------------------------------------------------------------
(* The "clear cache" buttons                                               *)

\* a storage.local in which preferences and sessions have been saved
SomePrefs ==
    [ sortByDuration |-> << TRUE >>, excludedUrls |-> << << WatchB >> >>, thumbnailQuality |-> << "standard" >>,
      layoutMode |-> << "list" >>, groupingMode |-> << >>, sortOption |-> << "title-asc" >>,
      savedSessions |-> << << [ id |-> "s1", name |-> "Later", savedAt |-> 1, tabs |-> << [ url |-> WatchA ] >>, pinned |-> FALSE ] >> >> ]

\* the popup's btn-clear-cache: after confirm(), clearCache() and getYouTubeTabs()
PopupClearCache ==
    /\ ui.who = "popup"
    /\ \E confirmed \in BOOLEAN :
        IF confirmed
        THEN /\ storage' = clearCache(local, storage)
             /\ ui' = PopupLoaded(ui, loadStorage(local, clearCache(local, storage)), "cleared")
        ELSE /\ storage' = storage
             /\ ui' = [ ui EXCEPT !.last = "declined" ]
    /\ UNCHANGED << contentVars, localVars, normVars, syncVars, probeVars, now, calls, nwrites >>

\* the manager's btn-clear-cache: after showConfirm(), clearCache(),
\* metadataCache = {} and fetchTabs()
ManagerClearCache ==
    /\ ui.who = "manager"
    /\ \E confirmed \in BOOLEAN :
        IF confirmed
        THEN /\ storage' = clearCache(local, storage)
             /\ ui' = ManagerLoaded([ ui EXCEPT !.metadataCache = << >> ],
                                    loadStorage(local, clearCache(local, storage)), "cleared")
        ELSE /\ storage' = storage
             /\ ui' = [ ui EXCEPT !.last = "declined" ]
    /\ UNCHANGED << contentVars, localVars, normVars, syncVars, probeVars, now, calls, nwrites >>

\* a page opened over some cache and some saved preferences and sessions
InitClear ==
    /\ nin = NULL
    /\ nout = NULL
    /\ nout2 = NULL
    /\ storage \in CachedStates
    /\ now = MaxTime
    /\ calls = [ c \in { "c1", "c2" } |-> [ pc |-> "idle" ] ]
    /\ nwrites = 0
    /\ batches = [ b \in { "b1", "b2" } |-> [ pc |-> "idle" ] ]
    /\ probe = [ pc |-> "idle" ]
    /\ local \in { StorageApi(TRUE), [ StorageApi(TRUE) EXCEPT !.prefs = SomePrefs ] }
    /\ ui \in { PopupGlobals, ManagerGlobals }
    /\ content = NoContentScript

\* the pages load, the cache is written to, and the user clears it
NextClear ==
    \/ PopupLoad
    \/ ManagerLoad
    \/ PopupClearCache
    \/ ManagerClearCache
    \/ UpdateBegin("c1", WatchedMetadata)
    \/ UpdateGet("c1")
    \/ UpdateSet("c1")

SpecClear == InitClear /\ [][NextClear]_vars

----------------------------------------------------------------------------
(* The manager's automatic sync-all at the end of fetchTabs *)

\* SYNC_COOLDOWN_MS, in clock ticks of 15 s
SYNC_COOLDOWN_MS == 2

\* the most tabs the manager lists
MaxTabs == 1

\* the fetchTabs() calls that may be under way at once
Runs == { "r1", "r2" }

\* seconds and isLive of a video entry: no duration, a duration, live
TabEntry(seconds, isLive) == [ seconds |-> seconds, isLive |-> isLive ]

TabEntries == { TabEntry(0, FALSE), TabEntry(600, FALSE), TabEntry(0, TRUE) }

\* the arrays fetchTabs may build from the tabs and the cache
VideoArrays == SeqsUpTo(TabEntries, MaxTabs)

\* the call of fetchTabs before it starts and after it has ended
IdleRun == [ pc |-> "idle", videos |-> << >>, settled |-> { } ]

\* the manager page after DOMContentLoaded: allVideos names the call whose
\* array the global refers to ("none": the initial empty array), Date.now()
\* is far from lastSyncTime = 0, sent keeps the times of the sync-all messages
ManagerPage ==
    [ who |-> "manager", runs |-> [ r \in Runs |-> IdleRun ], allVideos |-> "none",
      lastSyncTime |-> 0, clock |-> SYNC_COOLDOWN_MS, sent |-> << >> ]

\* the array the global allVideos refers to
AllVideosOf(page) == IF page.allVideos = "none" THEN << >> ELSE page.runs[page.allVideos].videos

\* allVideos.filter((v) => v.seconds === 0 && !v.isLive)
tabsWithoutDuration(videos) == SelectSeq(videos, LAMBDA v : v.seconds = 0 /\ ~v.isLive)

InitCooldown ==
    /\ nin = NULL
    /\ nout = NULL
    /\ nout2 = NULL
    /\ storage = << >>
    /\ now = 0
    /\ calls = [ c \in { "c1", "c2" } |-> [ pc |-> "idle" ] ]
    /\ nwrites = 0
    /\ batches = [ b \in { "b1", "b2" } |-> [ pc |-> "idle" ] ]
    /\ probe = [ pc |-> "idle" ]
    /\ local = StorageApi(TRUE)
    /\ ui = ManagerPage
    /\ content = NoContentScript

\* fetchTabs() is called: on load, after tab events, when the page becomes
\* visible; it awaits loadStorage() and tabs.query()
FetchTabsCalled(r) ==
    /\ ui.runs[r].pc = "idle"
    /\ ui' = [ ui EXCEPT !.runs[r].pc = "query" ]
    /\ UNCHANGED << contentVars, localVars, normVars, cacheVars, syncVars, probeVars >>

\* the tabs arrive: allVideos is replaced by the new array and probeTabs starts
\* a task for each entry
FetchTabsBuilds(r) ==
    /\ ui.runs[r].pc = "query"
    /\ \E videos \in VideoArrays :
        ui' = [ ui EXCEPT !.runs[r] = [ pc |-> "probing", videos |-> videos, settled |-> { } ],
                          !.allVideos = r ]
    /\ UNCHANGED << contentVars, localVars, normVars, cacheVars, syncVars, probeVars >>

\* the probe of one entry ends: the entry of the call's own array is left as
\* it was or takes what the probe found
ProbeSettles(r, i) ==
    /\ ui.runs[r].pc = "probing"
    /\ i \in DOMAIN ui.runs[r].videos
    /\ i \notin ui.runs[r].settled
    /\ \E entry \in TabEntries :
        ui' = [ ui EXCEPT !.runs[r].videos[i] = entry, !.runs[r].settled = @ \cup { i } ]
    /\ UNCHANGED << contentVars, localVars, normVars, cacheVars, syncVars, probeVars >>

\* the same without recording the time of the request
FetchTabsEnds_NoStamp(r) ==
    /\ ui.runs[r].pc = "probing"
    /\ ui.runs[r].settled = DOMAIN ui.runs[r].videos
    /\ IF /\ Len(tabsWithoutDuration(AllVideosOf(ui))) > 0
          /\ ui.clock - ui.lastSyncTime >= SYNC_COOLDOWN_MS
       THEN ui' = [ ui EXCEPT !.runs[r].pc = "idle", !.runs[r].settled = { },
                              !.sent = Append(@, ui.clock) ]
       ELSE ui' = [ ui EXCEPT !.runs[r].pc = "idle", !.runs[r].settled = { } ]
    /\ UNCHANGED << contentVars, localVars, normVars, cacheVars, syncVars, probeVars >>

\* probeTabs() has resolved: sync-all is sent for the entries of allVideos
\* without a duration, unless the last one was sent less than
\* SYNC_COOLDOWN_MS ago
FetchTabsEnds(r) ==
    /\ ui.runs[r].pc = "probing"
    /\ ui.runs[r].settled = DOMAIN ui.runs[r].videos
    /\ IF /\ Len(tabsWithoutDuration(AllVideosOf(ui))) > 0
          /\ ui.clock - ui.lastSyncTime >= SYNC_COOLDOWN_MS
       THEN ui' = [ ui EXCEPT !.runs[r].pc = "idle", !.runs[r].settled = { },
                              !.lastSyncTime = ui.clock,
                              !.sent = Append(@, ui.clock) ]
       ELSE ui' = [ ui EXCEPT !.runs[r].pc = "idle", !.runs[r].settled = { } ]
    /\ UNCHANGED << contentVars, localVars, normVars, cacheVars, syncVars, probeVars >>

\* a tab-synced message arrives: the entry of allVideos for that tab takes
\* the seconds and isLive of the message
TabSyncedArrives(i) ==
    /\ ui.allVideos # "none"
    /\ i \in DOMAIN AllVideosOf(ui)
    /\ \E entry \in TabEntries :
        /\ entry # AllVideosOf(ui)[i]
        /\ ui' = [ ui EXCEPT !.runs[ui.allVideos].videos[i] = entry ]
    /\ UNCHANGED << contentVars, localVars, normVars, cacheVars, syncVars, probeVars >>

\* 15 s pass
ClockTick ==
    /\ ui.clock < SYNC_COOLDOWN_MS + MaxClock
    /\ ui' = [ ui EXCEPT !.clock = @ + 1 ]
    /\ UNCHANGED << contentVars, localVars, normVars, cacheVars, syncVars, probeVars >>

NextCooldown ==
    \/ \E r \in Runs : FetchTabsCalled(r)
    \/ \E r \in Runs : FetchTabsBuilds(r)
    \/ \E r \in Runs : \E i \in 1..MaxTabs : ProbeSettles(r, i)
    \/ \E r \in Runs : FetchTabsEnds(r)
    \/ \E i \in 1..MaxTabs : TabSyncedArrives(i)
    \/ ClockTick

SpecCooldown == InitCooldown /\ [][NextCooldown]_vars

----------------------------------------------------------------------------
(* Properties of normalizeYoutubeUrl *)

Range(s) == { s[i] : i \in DOMAIN s }

CanonicalWatch(id) == << "https://www.youtube.com", "/", "watch", "?", "v", "=" >> \o id

\* C5 as stated: normalize(normalize(x)) = normalize(x) for every input string x.
C5_IdempotentForAll ==
    nout2 # NULL => nout2 = nout

\* C5 amended: normalize(normalize(x)) = normalize(x) for every string x that
\* normalize returns unchanged and for every x whose extracted video id holds
\* no query separator "&".
C5_IdempotentOnPlainIds ==
    (nout2 # NULL /\ (nout = nin \/ "&" \notin Range(nout))) => nout2 = nout

\* a short link was rewritten and the rewritten URL normalizes to itself
C5_Witness ==
    /\ nout2 # NULL
    /\ Len(nin) > 0
    /\ nin[1] = "https://youtu.be"
    /\ nout # nin
    /\ "&" \notin Range(nout)
    /\ nout2 = nout

\* C6: every URL of one of the three accepted forms (watch?v=ID with extra
\* query parameters, youtu.be/ID, /shorts/ID) normalizes to
\* https://www.youtube.com/watch?v=ID, so two URLs of the same id agree.
C6_SameIdSameCanonical ==
    nout # NULL =>
        \A id \in VideoIds : nin \in AcceptedForms(id) => nout = CanonicalWatch(id)

\* a /shorts/ URL of a two-token id was normalized to the canonical watch URL
C6_Witness ==
    /\ nout # NULL
    /\ nin \in ShortsForms(<< "a", "b" >>)
    /\ nout = CanonicalWatch(<< "a", "b" >>)

Unparseable(url) == url = << >> \/ url[1] \notin Origins

\* the host contains neither "youtube.com" nor "youtu.be"
UnrecognizedHost(url) == ~Unparseable(url) /\ url[1] = "https://example.com"

\* a URL of a recognized host from which no video id can be taken: a short
\* link with an empty path, or a platform URL with no non-empty v parameter
\* whose path is not /shorts/ followed by a non-empty segment
NoVideoId(url) ==
    /\ ~Unparseable(url)
    /\ ~UnrecognizedHost(url)
    /\ LET u == ParseURL(url)
       IN  IF url[1] = "https://youtu.be"
           THEN u.pathname = << "/" >>
           ELSE /\ ~Truthy(SearchParamsGet(u.search, << "v" >>))
                /\ \/ Len(u.pathname) < 4
                   \/ SubSeq(u.pathname, 1, 3) # << "/", "shorts", "/" >>
                   \/ u.pathname[4] = "/"

----------------------------------------------------------------------------
(* Properties of the cache write path *)

\* the step in which caller c's storage.local.set takes effect
IsSetStep(c) == calls[c].pc = "set" /\ calls'[c].pc = "idle"

\* the step in which caller c's storage.local.get resolves
IsGetStep(c) == calls[c].pc = "get" /\ calls'[c].pc = "set"

\* C1: a write of seconds = 0, isLive = false over an entry with seconds > 0
\* leaves the entry's seconds at the cached value.
C1_StaleZeroKeepsDuration ==
    [][ \A c \in Callers :
          ( /\ IsSetStep(c)
            /\ HasKey(storage, calls[c].key)
            /\ Lookup(storage, calls[c].key).seconds > 0
            /\ calls[c].metadata.seconds = 0
            /\ ~calls[c].metadata.isLive )
          => /\ HasKey(storage', calls[c].key)
             /\ Lookup(storage', calls[c].key).seconds = Lookup(storage, calls[c].key).seconds
      ]_vars

\* C2: a write of seconds = 0, isLive = true over an existing entry yields an
\* entry with seconds = 0 and isLive = true.
C2_LiveOverride ==
    [][ \A c \in Callers :
          ( /\ IsSetStep(c)
            /\ HasKey(storage, calls[c].key)
            /\ calls[c].metadata.seconds = 0
            /\ calls[c].metadata.isLive )
          => /\ HasKey(storage', calls[c].key)
             /\ Lookup(storage', calls[c].key).seconds = 0
             /\ Lookup(storage', calls[c].key).isLive
      ]_vars

\* a live write over a stored entry of 600 seconds has been merged and its
\* storage.local.set is about to take effect
C2_Witness ==
    \E c \in Callers :
        /\ calls[c].pc = "set"
        /\ calls[c].metadata.seconds = 0
        /\ calls[c].metadata.isLive
        /\ HasKey(storage, calls[c].key)
        /\ Lookup(storage, calls[c].key).seconds = 600
        /\ ~Lookup(storage, calls[c].key).isLive
        /\ Lookup(calls[c].cache, calls[c].key).seconds = 0
        /\ Lookup(calls[c].cache, calls[c].key).isLive

\* C3: after a write the entry's title, channelName, currentTime and isLive
\* are the incoming values whatever the entry held before, and its timestamp
\* is the time read by this write.
C3_FieldsOverwritten ==
    [][ \A c \in Callers :
          IsSetStep(c)
          => /\ HasKey(storage', calls[c].key)
             /\ LET e == Lookup(storage', calls[c].key)
                    m == calls[c].metadata
                IN  /\ e.title = m.title
                    /\ e.channelName = m.channelName
                    /\ e.currentTime = m.currentTime
                    /\ e.isLive = m.isLive
                    /\ e.timestamp = calls[c].ts
      ]_vars

\* a write whose every field differs from the stored entry, the timestamp
\* included, has been merged
C3_Witness ==
    \E c \in Callers :
        /\ calls[c].pc = "set"
        /\ HasKey(storage, calls[c].key)
        /\ LET old == Lookup(storage, calls[c].key)
               new == Lookup(calls[c].cache, calls[c].key)
           IN  /\ old.title # new.title
               /\ old.channelName # new.channelName
               /\ old.currentTime # new.currentTime
               /\ old.isLive # new.isLive
               /\ old.timestamp < new.timestamp

\* C4: a write never undoes another write: when it takes effect, every other
\* entry the store holds at that moment is still there, unchanged, except the
\* one entry its size check deleted.
C4_NoLostUpdate ==
    [][ \A c \in Callers :
          IsSetStep(c)
          => \A i \in DOMAIN storage :
                (storage[i].key # calls[c].key /\ storage[i].key # calls[c].removed)
                => /\ HasKey(storage', storage[i].key)
                   /\ Lookup(storage', storage[i].key) = storage[i]
      ]_vars

\* C8: a write that brings the store to CacheLimit + 1 entries leaves
\* CacheLimit entries, removes exactly one, and the removed entry has the
\* smallest timestamp of the entries present before the eviction.
C8_EvictsOldest ==
    [][ \A c \in Callers :
          IsGetStep(c)
          => LET before == PutEntry(storage, calls[c].key, calls[c].metadata, calls'[c].ts)
                 after  == calls'[c].cache
             IN  Len(before) = CacheLimit + 1
                 => /\ Len(after) = CacheLimit
                    /\ \E i \in DOMAIN before :
                          /\ after = RemoveAt(before, i)
                          /\ \A j \in DOMAIN before :
                                before[i].timestamp <= before[j].timestamp
      ]_vars

\* a write of a new key into a full store deleted an entry strictly older than
\* every entry it kept
C8_Witness ==
    \E c \in Callers :
        /\ calls[c].pc = "set"
        /\ calls[c].removed # NULL
        /\ Len(calls[c].cache) = CacheLimit
        /\ HasKey(storage, calls[c].removed)
        /\ \A i \in DOMAIN calls[c].cache :
              Lookup(storage, calls[c].removed).timestamp < calls[c].cache[i].timestamp

\* C9: the persisted cache never holds more than the bound.
C9_SizeBounded == Len(storage) <= CacheLimit

\* more writes than the bound were made, all have completed and the store is
\* exactly full
C9_Witness ==
    /\ nwrites > CacheLimit
    /\ \A c \in Callers : calls[c].pc = "idle"
    /\ Len(storage) = CacheLimit

----------------------------------------------------------------------------
(* Properties of the slow path *)

\* the fetches in flight: batch, position in the batch
InFlight ==
    { << b, i >> \in BatchIds \X (1..MaxBatch) :
        /\ batches[b].pc = "running"
        /\ i \in DOMAIN batches[b].tabs
        /\ batches[b].task[i] = "fetching" }

FetchedUrl(f) == TabUrl(batches[f[1]].tabs[f[2]])

\* C10: at most one fetch per canonical URL is in flight at any time.
C10_OneFetchPerCanonicalUrl ==
    \A f, g \in InFlight :
        f # g => normalizeYoutubeUrl(FetchedUrl(f)) # normalizeYoutubeUrl(FetchedUrl(g))

\* the tabs of batch b whose URL has canonical form url and for which a fetch
\* has been started
FetchesStarted(b, url) ==
    { k \in DOMAIN batches[b].tabs :
        /\ normalizeYoutubeUrl(TabUrl(batches[b].tabs[k])) = url
        /\ batches[b].task[k] \in { "fetching", "done", "failed" } }

\* the metadata of the tab-synced messages batch b has sent for tab tabId
SyncedMetadata(b, tabId) ==
    { batches[b].sent[n].metadata : n \in
        { n \in DOMAIN batches[b].sent :
            /\ batches[b].sent[n].action = "tab-synced"
            /\ batches[b].sent[n].tabId = tabId } }

\* C11: a finished batch with two tabs of the same video has started exactly
\* one fetch for it, and each of the two tabs has received a tab-synced
\* message, both with the same metadata.
C11_SameVideoOneFetchBothSynced ==
    \A b \in BatchIds :
        batches[b].pc = "done" =>
            \A i, j \in DOMAIN batches[b].tabs :
                LET url == normalizeYoutubeUrl(TabUrl(batches[b].tabs[i]))
                IN  (i # j /\ normalizeYoutubeUrl(TabUrl(batches[b].tabs[j])) = url)
                    => /\ Cardinality(FetchesStarted(b, url)) = 1
                       /\ SyncedMetadata(b, batches[b].tabs[i]) # { }
                       /\ SyncedMetadata(b, batches[b].tabs[i])
                            = SyncedMetadata(b, batches[b].tabs[j])

\* a cache entry that answers a sync request: a duration or live, a title, and
\* written at the present time
Fresh(e) == (e.seconds > 0 \/ e.isLive) /\ e.title # "" /\ e.timestamp = now

\* C12: no fetch is started for a tab whose canonical URL has a fresh cache
\* entry.
C12_FreshEntryNoFetch ==
    \A b \in BatchIds :
        batches[b].pc # "idle" =>
            \A i \in DOMAIN batches[b].tabs :
                LET url == normalizeYoutubeUrl(TabUrl(batches[b].tabs[i]))
                IN  (HasKey(storage, url) /\ Fresh(Lookup(storage, url)))
                    => batches[b].task[i] \notin { "fetching", "done", "failed" }

\* C13: at most one fetch of a batch is outstanding at any time.
C13_SequentialFetches ==
    \A b \in BatchIds :
        batches[b].pc = "running" =>
            Cardinality({ i \in DOMAIN batches[b].tabs : batches[b].task[i] = "fetching" }) <= 1

\* the page of the rate-limit interstitial
RateLimited(html) == html.titleTag = "Sorry..."

HasSent(b, action) ==
    \E n \in DOMAIN batches[b].sent : batches[b].sent[n].action = action

\* C14: once the fetch of the k-th tab of a batch has returned the rate-limit
\* interstitial, a sync-error has been sent, and no tab after k is attempted:
\* no fetch is started and no tab-synced message is sent for it.
C14_RateLimitAborts ==
    \A b \in BatchIds :
        batches[b].pc # "idle" =>
            \A k \in DOMAIN batches[b].tabs :
                (batches[b].task[k] = "done" /\ RateLimited(batches[b].html[k]))
                => /\ HasSent(b, "sync-error")
                   /\ \A j \in DOMAIN batches[b].tabs :
                         j > k => /\ batches[b].task[j] \notin { "fetching", "done", "failed" }
                                  /\ SyncedMetadata(b, batches[b].tabs[j]) = { }

\* C15: the step in which a tab's fetch returns a consent page sends no
\* message (no tab-synced, no sync-error), writes nothing to the cache and
\* leaves the other tabs' tasks as they were.
C15_ConsentSkipped ==
    [][ \A b \in BatchIds :
          batches[b].pc = "running" =>
            \A i \in DOMAIN batches[b].tabs :
              ( /\ batches[b].task[i] = "fetching"
                /\ batches'[b].task[i] = "done"
                /\ batches'[b].html[i].consent )
              => /\ batches'[b].sent = batches[b].sent
                 /\ storage' = storage
                 /\ \A j \in DOMAIN batches[b].tabs :
                       j # i => /\ batches'[b].task[j] = batches[b].task[j]
                                /\ batches'[b].html[j] = batches[b].html[j]
      ]_vars

\* a batch of two tabs has finished: the first tab's fetch returned a consent
\* page, the second tab was synced, and the only messages are the second
\* tab's tab-synced and sync-complete
C15_Witness ==
    /\ batches["b1"].pc = "done"
    /\ Len(batches["b1"].tabs) = 2
    /\ batches["b1"].task = << "done", "done" >>
    /\ batches["b1"].html[1].consent
    /\ ~batches["b1"].html[2].consent
    /\ Len(batches["b1"].sent) = 2
    /\ batches["b1"].sent[1].action = "tab-synced"
    /\ batches["b1"].sent[1].tabId = batches["b1"].tabs[2]
    /\ batches["b1"].sent[2].action = "sync-complete"

----------------------------------------------------------------------------
(* Properties of the extractors and of the probe *)

\* C17: in both extractors a non-zero length in the structured data gives
\* isLive = false and seconds equal to that length, whatever the isLive flag,
\* the broadcast details and the live badge say.
C17_LengthOverridesLive ==
    /\ \A html \in Pages :
          (~html.consent /\ html.player = "details" /\ html.lengthSeconds > 0)
          => /\ ~Extracted(html).isLive
             /\ Extracted(html).duration = html.lengthSeconds
    /\ ( /\ probe.pc # "idle"
         /\ probe.result.kind = "full"
         /\ ~probe.dom.throws
         /\ PlayerLength(probe.dom) > 0 )
       => /\ ~probe.result.isLive
          /\ probe.result.duration = PlayerLength(probe.dom)

\* C18: the probe returns the skip result only when the video entry holds
\* valid metadata and the video id of the page's structured data equals the
\* video id of the tab's URL.
C18_SkipOnlySameVideo ==
    (probe.pc # "idle" /\ probe.result.kind = "skip")
    => /\ hasValidMetadata(probe.video)
       /\ PlayerVideoId(probe.dom) = getVideoIdFromUrl(probe.url)

\* an answer of the content script for the video the tab's URL names
ExpectedAnswer(meta, url) == ~meta.none /\ meta.videoId = getVideoIdFromUrl(url)

\* C19: after an SPA transition the content script is asked at most twice,
\* the second time only after the backoff, and an answer that is not for the
\* expected video leaves the video entry and the cache requests as they were.
C19_RetryBounded ==
    [][ probe.pc = "try" =>
          /\ probe'.tries = probe.tries + 1
          /\ probe'.tries <= 2
          /\ probe.tries = 0 => probe'.pc \in { "done", "backoff" }
          /\ probe.tries = 1 => probe'.pc = "done"
          /\ ~ExpectedAnswer(probe'.meta, probe.url)
                => /\ probe'.video = probe.video
                   /\ probe'.requests = probe.requests
      ]_vars

\* an SPA transition was detected, both attempts were answered for another
\* video, and the entry still has its title and duration and no cache request
\* was made
C19_Witness ==
    /\ probe.pc = "done"
    /\ probe.result.kind = "spa"
    /\ probe.tries = 2
    /\ ~probe.meta.none
    /\ ~ExpectedAnswer(probe.meta, probe.url)
    /\ probe.video.title = << "A" >>
    /\ probe.video.seconds = 600
    /\ probe.requests = << >>

\* C20: without the storage API every operation of utils/storage.ts (loadStorage,
\* saveStorage, updateMetadataCache, clearCache) returns the empty defaults or
\* leaves everything as it was, and none of them throws.
C20_StorageUnavailable ==
    ~local.available
    => /\ storage = << >>
       /\ local.prefs = NoPrefs
       /\ local.ret.op = "loadStorage" => local.ret.value = EmptyDefaults
       /\ local.ret.op # "none" => ~local.ret.threw

\* the preferences held in a page's variables
PreferencesOf(globals) ==
    IF globals.who = "popup"
    THEN [ sortByDuration |-> globals.sortByDuration, smartSync |-> globals.smartSync,
           excludedUrls |-> ExcludedUrlsOf(globals.videoData) ]
    ELSE [ thumbnailQuality |-> globals.thumbnailQuality, layoutMode |-> globals.layoutMode,
           groupingMode |-> globals.groupingMode, sortOption |-> globals.sortOption,
           excludedUrls |-> ExcludedUrlsOf(globals.allVideos) ]

\* C21: a load that follows a save gives the page the preferences it saved
\* (sort order, layout mode, grouping mode, thumbnail quality, smart-sync
\* toggle, excluded URLs), and a save leaves the metadata cache as it was.
C21_PrefsRoundTrip ==
    [][ /\ (ui.who # "none" /\ ui.last = "saved" /\ ui'.last = "loaded")
           => PreferencesOf(ui') = PreferencesOf(ui)
        /\ ui'.who # "none" /\ ui'.last = "saved" => storage' = storage ]_vars

\* C22: clearing drops every entry of the metadata cache (the load that follows
\* returns an empty mapping) and leaves preferences, excluded URLs and saved
\* sessions as they were; the cache is emptied only by the confirmed button.
C22_ClearFrame ==
    [][ /\ (ui'.who # "none" /\ ui'.last = "cleared" /\ calls' = calls)
           => /\ storage' = << >>
              /\ ui'.metadataCache = << >>
              /\ local'.prefs = local.prefs
        /\ (storage # << >> /\ storage' = << >> /\ calls' = calls) => ui'.last = "cleared" ]_vars

C22_Witness == ui.who # "none" /\ ui.last = "cleared" /\ local.prefs = SomePrefs /\ storage = << >> /\ nwrites > 0 /\ calls["c1"].pc = "idle"

\* the metadata the messages of one task carry
MetadataSent(messages) == { messages[n].metadata : n \in DOMAIN messages }

\* C23: a fetch that rejects or a page whose embedded JSON does not parse is
\* contained in its own task: the failed fetch yields no message, the bad JSON
\* yields the zero fields (only the text fallbacks remain), every other tab of
\* the batch gets the message of its page, and the batch ends with sync-complete.
C23_ErrorsContained ==
    /\ [] ( batches["b1"].pc = "done" =>
              /\ batches["b1"].sent[Len(batches["b1"].sent)].action = "sync-complete"
              /\ \A i \in DOMAIN batches["b1"].tabs :
                    /\ batches["b1"].task[i] \in { "done", "failed" }
                    /\ batches["b1"].task[i] = "failed"
                          => SyncedMetadata("b1", batches["b1"].tabs[i]) = { }
                    /\ batches["b1"].task[i] = "done"
                          => SyncedMetadata("b1", batches["b1"].tabs[i])
                               = MetadataSent(TaskMessages(batches["b1"].tabs[i], batches["b1"].html[i]))
                    /\ (batches["b1"].task[i] = "done" /\ batches["b1"].html[i].player = "malformed")
                          => FromPlayerResponse(batches["b1"].html[i])
                               = [ duration |-> 0, title |-> "", channel |-> "", isLive |-> FALSE ] )
    /\ (batches["b1"].pc = "running" ~> batches["b1"].pc = "done")

\* a batch of two tabs has ended: the first fetch was rejected, the second
\* returned a page with malformed JSON, whose fallbacks were sent
C23_Witness ==
    /\ batches["b1"].pc = "done"
    /\ batches["b1"].task = << "failed", "done" >>
    /\ batches["b1"].html[2].player = "malformed"
    /\ Len(batches["b1"].sent) = 2
    /\ batches["b1"].sent[1].action = "tab-synced"
    /\ batches["b1"].sent[1].tabId = batches["b1"].tabs[2]
    /\ batches["b1"].sent[1].metadata.seconds = 212
    /\ batches["b1"].sent[2].action = "sync-complete"

\* C24: a probe whose script injection was rejected leaves its video marked
\* suspended, and has asked for a slow-path sync of that tab exactly when smart
\* sync is on.
C24_ProbeFailureRecovery ==
    (probe.pc = "failed")
    => /\ probe.video.suspended
       /\ probe.syncAsked = probe.smartSync

\* C25: every probe task of a refresh reaches an outcome that ends it for the
\* cycle (metadata applied, or left unresolved or failed), and from that outcome
\* the next refresh can start the tab's task again.
C25_CycleTerminates ==
    /\ [](probe.pc \in { "start", "inject", "try", "backoff" } => <>(probe.pc \in { "done", "failed" }))
    /\ [](probe.pc \in { "done", "failed" } => ENABLED Refresh)

\* a task started again from an entry that an earlier cycle had cached, and
\* ended again
C25_Witness ==
    /\ probe.pc = "failed"
    /\ probe.who = "manager"
    /\ probe.video \notin Videos
    /\ probe.video.seconds > 0

\* C26: at most one read timer is pending; every event leaves exactly one timer,
\* due 150 ms after it; the timer's read happens 150 ms after the last event,
\* leaves no timer behind, and on a page that is neither watch nor shorts it is
\* skipped, the metadata staying as they were.
C26_Debounce ==
    [][ content.running =>
          /\ Cardinality(content'.timers) <= 1
          /\ content'.events # content.events
                => content'.timers = { [ id |-> content'.debounceTimer, due |-> content.clock + DEBOUNCE_MS ] }
          /\ content'.timers # content.timers /\ content'.events = content.events
                => /\ content.clock = content.lastEvent + DEBOUNCE_MS
                   /\ content'.timers = { }
                   /\ content'.totalReads = content.totalReads + (IF isWatchOrShorts(content.dom) THEN 1 ELSE 0)
                   /\ ~isWatchOrShorts(content.dom) => content'.lastMetadata = content.lastMetadata ]_vars

\* a burst of three events within 150 ms has been answered by one read
C26_Witness ==
    /\ content.running
    /\ content.events = 3
    /\ content.lastEvent = 1
    /\ content.clock = 3
    /\ content.timers = { }
    /\ content.totalReads = 2
    /\ content.lastMetadata.videoId = << "b" >>

\* the positions of the sync-complete messages among the messages of a batch
SyncCompletes(messages) == { n \in DOMAIN messages : messages[n].action = "sync-complete" }

\* C27: the messages of a sync-all request hold one sync-complete once the
\* request is handled and none before; it is sent when every task of the
\* request has returned or failed, it is the last message, and afterwards
\* the background sends nothing more for that request.
C27_EventOrdering ==
    [][ /\ batches["b1"].pc = "running" => SyncCompletes(batches["b1"].sent) = { }
        /\ batches'["b1"].pc = "done"
              => /\ SyncCompletes(batches'["b1"].sent) = { Len(batches'["b1"].sent) }
                 /\ \A i \in DOMAIN batches'["b1"].tabs : batches'["b1"].task[i] \in { "done", "failed" }
        /\ (batches["b1"].pc = "done" /\ batches'["b1"].pc = "done")
              => batches'["b1"].sent = batches["b1"].sent
        /\ (batches["b1"].pc = "running" /\ batches'["b1"].pc = "running")
              => \A n \in DOMAIN batches'["b1"].sent : batches'["b1"].sent[n].action = "tab-synced" ]_vars

\* the second of two requests has been handled: its first tab answered, the
\* fetch of its second tab failed, and sync-complete followed the one tab-synced
C27_Witness ==
    /\ batches["b1"].pc = "done"
    /\ "earlier" \in DOMAIN batches["b1"]
    /\ batches["b1"].task = << "done", "failed" >>
    /\ Len(batches["b1"].sent) = 2
    /\ batches["b1"].sent[1].action = "tab-synced"
    /\ batches["b1"].sent[1].tabId = batches["b1"].tabs[1]
    /\ batches["b1"].sent[2].action = "sync-complete"

\* C28: whatever an extractor produces, a live result has no duration: the
\* metadata of every tab-synced message, the content script's reading of the
\* page and the result of the injected probe all have seconds = 0 when
\* isLive holds.
C28_LiveHasNoDuration ==
    /\ \A b \in BatchIds :
          batches[b].pc # "idle" =>
              \A n \in DOMAIN batches[b].sent :
                  (batches[b].sent[n].action = "tab-synced" /\ batches[b].sent[n].metadata.isLive)
                      => batches[b].sent[n].metadata.seconds = 0
    /\ content.running => (content.lastMetadata.isLive => content.lastMetadata.seconds = 0)
    /\ (probe.pc # "idle" /\ probe.result.kind = "full" /\ probe.result.isLive) => probe.result.duration = 0

\* C29: every requestMetadataUpdate of the manager's probe carries a duration
\* or a live flag; one that follows an answer of the content script, on the
\* first query or after an SPA transition, follows an answer with a title and
\* with a video id that is not null and is the video id of the tab's URL.
C29_OnlyMeaningfulSameVideo ==
    [][ (probe.who = "manager" /\ probe'.requests # probe.requests) =>
          /\ probe'.requests[Len(probe'.requests)].seconds > 0 \/ probe'.requests[Len(probe'.requests)].isLive
          /\ probe.pc \in { "start", "try" } =>
                /\ probe'.meta.videoId # NULL
                /\ probe'.meta.videoId = getVideoIdFromUrl(probe.url)
                /\ probe'.meta.title # << >> ]_vars

\* C30: the manager's automatic sync-all requests are at least
\* SYNC_COOLDOWN_MS apart, however the fetchTabs calls overlap, and a
\* fetchTabs call that ends when no entry of allVideos has seconds = 0 and
\* isLive = false sends none.
C30_SyncCooldown ==
    [][ ui'.sent # ui.sent =>
          /\ ui'.sent = Append(ui.sent, ui.clock)
          /\ \A n \in DOMAIN ui.sent : ui.clock - ui.sent[n] >= SYNC_COOLDOWN_MS
          /\ \E i \in DOMAIN AllVideosOf(ui) :
                AllVideosOf(ui)[i].seconds = 0 /\ ~AllVideosOf(ui)[i].isLive ]_vars

\* two requests were sent exactly SYNC_COOLDOWN_MS apart; one tick after the
\* second a call is under way while allVideos refers to the array of the
\* other call, which still has an entry without a duration
C30_Witness ==
    /\ ui.who = "manager"
    /\ Len(ui.sent) = 2
    /\ ui.sent[2] - ui.sent[1] = SYNC_COOLDOWN_MS
    /\ ui.clock = ui.sent[2] + 1
    /\ ui.runs["r1"].pc = "probing"
    /\ ui.runs["r2"].pc = "idle"
    /\ ui.allVideos = "r2"
    /\ tabsWithoutDuration(AllVideosOf(ui)) # << >>

====
